---- MODULE Spec2Model ----
(***************************************************************************)
(* Process memory (cogito.storage.process_memory.ProcessMemoryStore): an   *)
(* append-only JSONL file with a lazily replayed in-memory cache, and the  *)
(* knowledge graph (cogito.storage.knowledge_graph.KnowledgeGraph) derived *)
(* from the cache.                                                         *)
(*                                                                         *)
(* An entry is a Python dict: here a function from the keys that are       *)
(* present to their values, so that `"k" in entry` is "k" \in DOMAIN entry *)
(* and entry.get("k", d) is Get(entry, "k", d).  The lists `tags` and      *)
(* `links` are only ever tested for membership or poured into a set by the *)
(* code, so they are sets here.                                            *)
(*                                                                         *)
(* The file is the sequence of writes that reached it.  A write is either  *)
(* a complete line (json.dump of the entry followed by "\n") or the text   *)
(* json.dump had already written when it raised on a value it cannot       *)
(* serialise: a fragment, with no closing brace and no newline.  A file    *)
(* that was on disk before the store opened it may also hold lines nobody  *)
(* appended: text that is not JSON ("garbage"), and JSON that is not an    *)
(* object, such as null or a list ("nonrecord").                           *)
(***************************************************************************)
EXTENDS Naturals, Integers, Sequences, FiniteSets, TLC

VARIABLES
    memory_file,    \* contents of the file at _memory_path (<<>>: absent or empty)
    cache,          \* _cache: entry id -> entry
    cache_loaded,   \* _cache_loaded
    graph,          \* _graph: entry id -> set of linked ids
    reverse_graph,  \* _reverse_graph: entry id -> set of ids linking to it
    built,          \* _built
    clock,          \* the next value datetime.utcnow() returns
    raised          \* what the last call raised ("none": it returned)

vars == <<memory_file, cache, cache_loaded, graph, reverse_graph, built, clock, raised>>

store_vars == <<memory_file, cache, cache_loaded, clock>>

graph_vars == <<graph, reverse_graph, built>>

----------------------------------------------------------------------------
(* Bounds of the model. *)

\* Writes (complete lines and fragments) the file may hold.
MaxLog == 3

\* Largest depth passed to get_related and get_entry_network.
MaxDepth == 3

----------------------------------------------------------------------------
(* Python dicts. *)

Get(entry, key, default) == IF key \in DOMAIN entry THEN entry[key] ELSE default

Put(entry, key, value) == (key :> value) @@ entry

EmptyDict == <<>>

Values(d) == {d[k] : k \in DOMAIN d}

\* Truthiness of entry.get("id"): a missing key (None) and "" are falsy.
TruthyId(entry) == "id" \in DOMAIN entry /\ entry["id"] # ""

\* entry.get("deprecated", False)
IsDeprecated(entry) == Get(entry, "deprecated", FALSE)

----------------------------------------------------------------------------
(* The file: json.dump, and reading it back line by line. *)

\* json.dump raises TypeError on a value that is not JSON (a set, a datetime,
\* any object).  The only such value of the model sits under "attachment".
JsonSerializable(entry) == "attachment" \notin DOMAIN entry

\* The file opened with "w" instead of "a": each write truncates it.
WriteLine_Truncating(file, entry) == <<[kind |-> "line", entry |-> entry]>>

\* with open(path, "a"): json.dump(entry, f); f.write("\n")
WriteLine(file, entry) == Append(file, [kind |-> "line", entry |-> entry])

\* json.dump writes chunk by chunk: when it raises, the chunks before the
\* offending value are in the file's buffer, and leaving the `with` block
\* flushes them.  f.write("\n") is never reached.
WriteFragment(file, entry) == Append(file, [kind |-> "fragment", entry |-> entry])

\* `for line in f`: the file splits at the newlines.  The i-th write is a line
\* of its own exactly when it ends with a newline and no fragment sits right
\* before it; a fragment and whatever follows it up to the next newline make
\* one line, which json.loads rejects (JSONDecodeError).
OwnLine(file, i) ==
    /\ file[i].kind # "fragment"
    /\ (i = 1 \/ file[i - 1].kind # "fragment")

\* json.loads returns a dict: the line is an entry record.
ParsesAt(file, i) == OwnLine(file, i) /\ file[i].kind = "line"

\* json.loads returns a value that is not a dict: the first .get on it raises
\* AttributeError, which no `except json.JSONDecodeError` catches.
AbortsAt(file, i) == OwnLine(file, i) /\ file[i].kind = "nonrecord"

\* The entries _ensure_cache_loaded gets from json.loads, in file order, up
\* to the line that makes it raise, if there is one.
RECURSIVE ParsedFrom(_, _)
ParsedFrom(file, i) ==
    IF i > Len(file) THEN <<>>
    ELSE IF ParsesAt(file, i) THEN <<file[i].entry>> \o ParsedFrom(file, i + 1)
    ELSE IF AbortsAt(file, i) THEN <<>>
    ELSE ParsedFrom(file, i + 1)

ParsedEntries(file) == ParsedFrom(file, 1)

\* _ensure_cache_loaded raises ("Failed to load cache").
LoadRaises(loaded, file) ==
    ~loaded /\ \E i \in 1 .. Len(file) : AbortsAt(file, i)

----------------------------------------------------------------------------
(* ProcessMemoryStore *)

\* The filter shared by list_entries and stream_entries.  category = "" and
\* tags = {} stand for None (and for the empty values, which are falsy too).
SkipDeprecated(entry, include_deprecated) ==
    ~include_deprecated /\ IsDeprecated(entry)

CategoryMismatch(entry, category) ==
    category # "" /\ ("type" \notin DOMAIN entry \/ entry["type"] # category)

\* The tags filter with any() in place of all().
TagsMismatch_AnyTag(entry, tags) ==
    tags # {} /\ ~(\E tag \in tags : tag \in Get(entry, "tags", {}))

TagsMismatch(entry, tags) ==
    tags # {} /\ ~(\A tag \in tags : tag \in Get(entry, "tags", {}))

Matches(entry, category, tags, include_deprecated) ==
    /\ ~SkipDeprecated(entry, include_deprecated)
    /\ ~CategoryMismatch(entry, category)
    /\ ~TagsMismatch(entry, tags)

\* _ensure_cache_loaded, the loop: every parsed entry with a truthy id
\* overwrites the slot of its id.
RECURSIVE LoadInto(_, _, _)
LoadInto(c, entries, i) ==
    IF i > Len(entries) THEN c
    ELSE LoadInto(IF TruthyId(entries[i])
                  THEN Put(c, entries[i]["id"], entries[i])
                  ELSE c,
                  entries, i + 1)

\* _ensure_cache_loaded: the cache a read works on.
EnsureCacheLoaded(c, loaded, file) ==
    IF loaded THEN c ELSE LoadInto(c, ParsedEntries(file), 1)

\* list_entries without its `continue` on deprecated entries.
ListEntries_KeepsDeprecated(c, category, tags, include_deprecated) ==
    {e \in Values(c) : Matches(e, category, tags, TRUE)}

\* list_entries on cache c.
ListEntries(c, category, tags, include_deprecated) ==
    {e \in Values(c) : Matches(e, category, tags, include_deprecated)}

\* The filters of stream_entries call .get on the value json.loads returned
\* unless every one of them is switched off (`not include_deprecated and`,
\* `category and`, `if tags` short-circuit).
FilterTouches(category, tags, include_deprecated) ==
    ~include_deprecated \/ category # "" \/ tags # {}

\* stream_entries: the values yielded, in order.  A line that is JSON but
\* not a dict ends the stream with an error when a filter touches it, and is
\* yielded as it is otherwise.
RECURSIVE StreamFrom(_, _, _, _, _)
\* The stream ending at the first line that does not parse.
StreamFrom_StopsAtMalformed(file, i, category, tags, include_deprecated) ==
    IF i > Len(file) THEN <<>>
    ELSE IF ParsesAt(file, i)
    THEN (IF Matches(file[i].entry, category, tags, include_deprecated)
          THEN <<file[i].entry>> ELSE <<>>)
         \o StreamFrom(file, i + 1, category, tags, include_deprecated)
    ELSE <<>>

StreamFrom(file, i, category, tags, include_deprecated) ==
    IF i > Len(file) THEN <<>>
    ELSE IF ParsesAt(file, i)
    THEN (IF Matches(file[i].entry, category, tags, include_deprecated)
          THEN <<file[i].entry>> ELSE <<>>)
         \o StreamFrom(file, i + 1, category, tags, include_deprecated)
    ELSE IF AbortsAt(file, i)
    THEN (IF FilterTouches(category, tags, include_deprecated) THEN <<>>
          ELSE <<file[i].entry>>
               \o StreamFrom(file, i + 1, category, tags, include_deprecated))
    ELSE StreamFrom(file, i + 1, category, tags, include_deprecated)

StreamEntries(file, category, tags, include_deprecated) ==
    StreamFrom(file, 1, category, tags, include_deprecated)

\* stream_entries raises ("Failed to stream entries").
StreamRaises(file, category, tags, include_deprecated) ==
    /\ FilterTouches(category, tags, include_deprecated)
    /\ \E i \in 1 .. Len(file) : AbortsAt(file, i)

\* append_entry from the point where the entry is known to have an id: stamps
\* the defaults, writes, and updates a loaded cache.  Returns the new file,
\* cache and clock and what was raised.
AppendEffect(file, c, loaded, clk, entry) ==
    LET stamped == IF "timestamp_created" \in DOMAIN entry THEN entry
                   ELSE Put(entry, "timestamp_created", clk)
        clk2 == IF "timestamp_created" \in DOMAIN entry THEN clk ELSE clk + 1
        e == IF "deprecated" \in DOMAIN stamped THEN stamped
             ELSE Put(stamped, "deprecated", FALSE)
    IN  IF JsonSerializable(e)
        THEN [memory_file |-> WriteLine(file, e),
              cache |-> IF loaded THEN Put(c, e["id"], e) ELSE c,
              clock |-> clk2,
              raised |-> "none"]
        ELSE [memory_file |-> WriteFragment(file, e),
              cache |-> c,
              clock |-> clk2,
              raised |-> "AppendFailed"]

\* append_entry with an invalidation hook: an append marks the graph unbuilt.
append_entry_Invalidating(entry) ==
    IF "id" \notin DOMAIN entry
    THEN /\ raised' = "MissingIdentifier"
         /\ UNCHANGED <<store_vars, graph_vars>>
    ELSE LET r == AppendEffect(memory_file, cache, cache_loaded, clock, entry)
         IN  /\ memory_file' = r.memory_file
             /\ cache' = r.cache
             /\ clock' = r.clock
             /\ raised' = r.raised
             /\ built' = FALSE
             /\ UNCHANGED <<cache_loaded, graph, reverse_graph>>

\* append_entry testing for the id only after the write.
append_entry_ChecksAfterWrite(entry) ==
    IF "id" \notin DOMAIN entry
    THEN /\ memory_file' = WriteLine(memory_file, entry)
         /\ raised' = "MissingIdentifier"
         /\ UNCHANGED <<cache, cache_loaded, clock, graph_vars>>
    ELSE LET r == AppendEffect(memory_file, cache, cache_loaded, clock, entry)
         IN  /\ memory_file' = r.memory_file
             /\ cache' = r.cache
             /\ clock' = r.clock
             /\ raised' = r.raised
             /\ UNCHANGED <<cache_loaded, graph_vars>>

append_entry(entry) ==
    IF "id" \notin DOMAIN entry
    THEN /\ raised' = "MissingIdentifier"
         /\ UNCHANGED <<store_vars, graph_vars>>
    ELSE LET r == AppendEffect(memory_file, cache, cache_loaded, clock, entry)
         IN  /\ memory_file' = r.memory_file
             /\ cache' = r.cache
             /\ clock' = r.clock
             /\ raised' = r.raised
             /\ UNCHANGED <<cache_loaded, graph_vars>>

\* deprecate_entry that, for an id it does not find, appends a deprecated
\* record of its own making.
deprecate_entry_CreatesStub(entry_id, reason) ==
    LET c == EnsureCacheLoaded(cache, cache_loaded, memory_file)
        d1 == Put(Put(IF entry_id \in DOMAIN c THEN c[entry_id] ELSE [id |-> entry_id],
                      "deprecated", TRUE),
                  "timestamp_deprecated", clock)
        d2 == IF reason # "" THEN Put(d1, "deprecation_reason", reason) ELSE d1
        r == AppendEffect(memory_file, c, TRUE, clock + 1, d2)
    IN  /\ memory_file' = r.memory_file
        /\ cache' = r.cache
        /\ cache_loaded' = TRUE
        /\ clock' = r.clock
        /\ raised' = r.raised
        /\ UNCHANGED graph_vars

deprecate_entry(entry_id, reason) ==
    LET c == EnsureCacheLoaded(cache, cache_loaded, memory_file)
    IN     IF LoadRaises(cache_loaded, memory_file)
           THEN /\ cache' = c
                /\ raised' = "LoadFailed"
                /\ UNCHANGED <<memory_file, cache_loaded, clock, graph_vars>>
           ELSE IF entry_id \notin DOMAIN c
           THEN /\ cache' = c
                /\ cache_loaded' = TRUE
                /\ raised' = "NotFound"
                /\ UNCHANGED <<memory_file, clock, graph_vars>>
           ELSE LET d1 == Put(Put(c[entry_id], "deprecated", TRUE),
                              "timestamp_deprecated", clock)
                    d2 == IF reason # "" THEN Put(d1, "deprecation_reason", reason)
                          ELSE d1
                    r == AppendEffect(memory_file, c, TRUE, clock + 1, d2)
                IN  /\ memory_file' = r.memory_file
                    /\ cache' = r.cache
                    /\ cache_loaded' = TRUE
                    /\ clock' = r.clock
                    /\ raised' = r.raised
                    /\ UNCHANGED graph_vars

\* get_entry, list_entries: the first read replays the file.  A replay that
\* raises leaves the entries it had read in the cache and the flag unset.
get_entry(entry_id) ==
    /\ cache' = EnsureCacheLoaded(cache, cache_loaded, memory_file)
    /\ cache_loaded' = ~LoadRaises(cache_loaded, memory_file)
    /\ raised' = IF LoadRaises(cache_loaded, memory_file) THEN "LoadFailed" ELSE "none"
    /\ UNCHANGED <<memory_file, clock, graph_vars>>

list_entries(category, tags, include_deprecated) ==
    /\ cache' = EnsureCacheLoaded(cache, cache_loaded, memory_file)
    /\ cache_loaded' = ~LoadRaises(cache_loaded, memory_file)
    /\ raised' = IF LoadRaises(cache_loaded, memory_file) THEN "LoadFailed" ELSE "none"
    /\ UNCHANGED <<memory_file, clock, graph_vars>>

\* stream_entries reads the file and touches nothing.
stream_entries(category, tags, include_deprecated) ==
    /\ raised' = IF StreamRaises(memory_file, category, tags, include_deprecated)
                 THEN "StreamFailed" ELSE "none"
    /\ UNCHANGED <<store_vars, graph_vars>>

\* get_entry_count: len(cache), or the number of its entries that are not
\* deprecated, after loading the cache.
get_entry_count(include_deprecated) ==
    /\ cache' = EnsureCacheLoaded(cache, cache_loaded, memory_file)
    /\ cache_loaded' = ~LoadRaises(cache_loaded, memory_file)
    /\ raised' = IF LoadRaises(cache_loaded, memory_file) THEN "LoadFailed" ELSE "none"
    /\ UNCHANGED <<memory_file, clock, graph_vars>>

CountResult(include_deprecated) ==
    LET c == EnsureCacheLoaded(cache, cache_loaded, memory_file)
    IN  Cardinality({id \in DOMAIN c : include_deprecated \/ ~IsDeprecated(c[id])})

\* clear_cache that forgets the entries and keeps the flag.
clear_cache_KeepsFlag ==
    /\ cache' = EmptyDict
    /\ cache_loaded' = cache_loaded
    /\ raised' = "none"
    /\ UNCHANGED <<memory_file, clock, graph_vars>>

\* append_entry of a second ProcessMemoryStore, in another process, opened on
\* the same path: it writes to the same file and updates its own cache; what
\* it raises, it raises there.
other_append_entry(entry) ==
    IF "id" \notin DOMAIN entry
    THEN UNCHANGED vars
    ELSE LET r == AppendEffect(memory_file, EmptyDict, FALSE, clock, entry)
         IN  /\ memory_file' = r.memory_file
             /\ clock' = r.clock
             /\ UNCHANGED <<cache, cache_loaded, raised, graph_vars>>

clear_cache ==
    /\ cache' = EmptyDict
    /\ cache_loaded' = FALSE
    /\ raised' = "none"
    /\ UNCHANGED <<memory_file, clock, graph_vars>>

----------------------------------------------------------------------------
(* get_summary and search_entries.  Titles, summaries, tags and keywords   *)
(* are sequences of characters where their characters matter.              *)

\* str.lower() on the characters used.
Lower(ch) ==
    CASE ch = "A" -> "a"
      [] ch = "B" -> "b"
      [] OTHER -> ch

LowerText(text) == [i \in 1 .. Len(text) |-> Lower(text[i])]

\* needle in hay
Contains(hay, needle) ==
    \E i \in 0 .. (Len(hay) - Len(needle)) :
        SubSeq(hay, i + 1, i + Len(needle)) = needle

\* The slice left out: the whole text.
Slice_NoLimit(text, n) == text

\* text[:n], a negative n counting from the end.
Slice(text, n) ==
    IF n >= 0
    THEN SubSeq(text, 1, IF n < Len(text) THEN n ELSE Len(text))
    ELSE SubSeq(text, 1, IF Len(text) + n > 0 THEN Len(text) + n ELSE 0)

\* The characters get_summary allows for each word.
WordChars == 6

\* entry.get(key): no value (None) or the value.
Opt(entry, key) == IF key \in DOMAIN entry THEN {entry[key]} ELSE {}

\* get_summary on cache c: the summary dict, if the entry is there.
GetSummary(c, entry_id, max_words) ==
    IF entry_id \notin DOMAIN c THEN {}
    ELSE LET entry == c[entry_id]
             summary == [id |-> Opt(entry, "id"),
                         type |-> Opt(entry, "type"),
                         title |-> Opt(entry, "title"),
                         summary |-> Slice(Get(entry, "summary", <<>>),
                                           max_words * WordChars)]
         IN  {IF "tags" \in DOMAIN entry
              THEN Put(summary, "tags", entry["tags"])
              ELSE summary}

\* get_summary raising for an absent entry as deprecate_entry does.
get_summary_RaisesNotFound(entry_id, max_words) ==
    LET c == EnsureCacheLoaded(cache, cache_loaded, memory_file)
    IN  /\ cache' = c
        /\ cache_loaded' = TRUE
        /\ raised' = IF entry_id \in DOMAIN c THEN "none" ELSE "NotFound"
        /\ UNCHANGED <<memory_file, clock, graph_vars>>

\* get_summary reads through get_entry and raises nothing of its own.
get_summary(entry_id, max_words) ==
    /\ cache' = EnsureCacheLoaded(cache, cache_loaded, memory_file)
    /\ cache_loaded' = ~LoadRaises(cache_loaded, memory_file)
    /\ raised' = IF LoadRaises(cache_loaded, memory_file) THEN "LoadFailed" ELSE "none"
    /\ UNCHANGED <<memory_file, clock, graph_vars>>

\* keyword_lower in entry.get(field, "").lower()
KeywordInField(entry, field, keyword) ==
    Contains(LowerText(Get(entry, field, <<>>)), LowerText(keyword))

\* any(keyword_lower in tag.lower() for tag in entry.get("tags", []))
KeywordInTags(entry, keyword) ==
    \E tag \in Get(entry, "tags", {}) :
        Contains(LowerText(tag), LowerText(keyword))

\* The keyword part of search_entries without the `continue` after each
\* results.append: the number of times it appends the entry.
SearchHits_NoContinue(entry, keyword) ==
    IF keyword = <<>> THEN 1
    ELSE (IF KeywordInField(entry, "title", keyword) THEN 1 ELSE 0)
         + (IF KeywordInField(entry, "summary", keyword) THEN 1 ELSE 0)
         + (IF KeywordInTags(entry, keyword) THEN 1 ELSE 0)

\* The keyword part of search_entries: the number of times it appends an
\* entry that passed the filters.  keyword = <<>> stands for None and "".
SearchHits(entry, keyword) ==
    IF keyword = <<>> THEN 1
    ELSE IF KeywordInField(entry, "title", keyword) THEN 1
    ELSE IF KeywordInField(entry, "summary", keyword) THEN 1
    ELSE IF KeywordInTags(entry, keyword) THEN 1
    ELSE 0

\* search_entries on cache c: the result list as the number of times each
\* entry is in it.
SearchEntries(c, keyword, category, tags) ==
    LET found == {e \in Values(c) :
                     /\ ~IsDeprecated(e)
                     /\ ~CategoryMismatch(e, category)
                     /\ ~TagsMismatch(e, tags)
                     /\ SearchHits(e, keyword) > 0}
    IN  [e \in found |-> SearchHits(e, keyword)]

search_entries(keyword, category, tags) ==
    /\ cache' = EnsureCacheLoaded(cache, cache_loaded, memory_file)
    /\ cache_loaded' = ~LoadRaises(cache_loaded, memory_file)
    /\ raised' = IF LoadRaises(cache_loaded, memory_file) THEN "LoadFailed" ELSE "none"
    /\ UNCHANGED <<memory_file, clock, graph_vars>>

SummaryResult(entry_id, max_words) ==
    GetSummary(EnsureCacheLoaded(cache, cache_loaded, memory_file),
               entry_id, max_words)

SearchResult(keyword, category, tags) ==
    SearchEntries(EnsureCacheLoaded(cache, cache_loaded, memory_file),
                  keyword, category, tags)

----------------------------------------------------------------------------
\* What the calls return in the current state.
GetEntryResult(entry_id) ==
    LET c == EnsureCacheLoaded(cache, cache_loaded, memory_file)
    IN  IF entry_id \in DOMAIN c THEN {c[entry_id]} ELSE {}

ListResult(category, tags, include_deprecated) ==
    ListEntries(EnsureCacheLoaded(cache, cache_loaded, memory_file),
                category, tags, include_deprecated)

StreamResult(category, tags, include_deprecated) ==
    StreamEntries(memory_file, category, tags, include_deprecated)

----------------------------------------------------------------------------
(* The callers of the store: the entries they append and the arguments     *)
(* they pass.                                                              *)

StoreIds == {"", "a", "b"}

Categories == {"StrategicDecision", "LessonLearned"}

TagSets == {{"foundation"}, {"foundation", "p1"}, {"p2"}}

Reasons == {"", "superseded"}

\* The three shapes of entry a caller of the store builds, for each id, with
\* and without a `deprecated` value of its own.
StoreShapes(id) ==
    { [id |-> id, type |-> "StrategicDecision", tags |-> {"foundation", "p1"}],
      [id |-> id, type |-> "LessonLearned", tags |-> {"foundation", "p2"}],
      [id |-> id, type |-> "LessonLearned"] }

StoreEntries ==
    LET plain == UNION {StoreShapes(id) : id \in StoreIds}
    IN  plain
        \cup {Put(e, "deprecated", TRUE) : e \in plain}
        \cup {Put(e, "deprecated", FALSE) : e \in plain}
        \cup {[id |-> "a", type |-> "LessonLearned", attachment |-> "object"]}
        \cup {[type |-> "LessonLearned", tags |-> {"foundation"}]}
        \cup {[id |-> "b", type |-> "LessonLearned", timestamp_created |-> 0]}

----------------------------------------------------------------------------
(* The store on its own. *)

Init ==
    /\ memory_file = <<>>
    /\ cache = EmptyDict
    /\ cache_loaded = FALSE
    /\ graph = EmptyDict
    /\ reverse_graph = EmptyDict
    /\ built = FALSE
    /\ clock = 1
    /\ raised = "none"

Next ==
    \/ /\ Len(memory_file) < MaxLog
       /\ \E entry \in StoreEntries : append_entry(entry)
    \/ /\ Len(memory_file) < MaxLog
       /\ \E id \in StoreIds, reason \in Reasons : deprecate_entry(id, reason)
    \/ \E id \in StoreIds : get_entry(id)
    \/ \E c \in Categories \cup {""}, t \in TagSets \cup {{}}, d \in BOOLEAN :
          list_entries(c, t, d)
    \/ \E c \in Categories \cup {""}, t \in TagSets \cup {{}}, d \in BOOLEAN :
          stream_entries(c, t, d)
    \/ clear_cache

Spec == Init /\ [][Next]_vars

----------------------------------------------------------------------------
(* The store under its summary and search calls: entries with texts. *)

MaxWords == 1

QueryIds == {"", "a", "b"}

QueryCategories == {"", "LessonLearned"}

QueryTagSets == {{}, {<<"b">>}, {<<"A", "b">>, <<"a", "b", "b">>}}

Keywords == {<<>>, <<"a">>, <<"A", "B">>, <<"b", "b", "a">>}

MaxWordsValues == -1 .. MaxWords

\* A summary longer than the characters of one word.
LongSummary == <<"A", "b", "a", "b", "a", "b", "a", "B">>

QueryShapes(id) ==
    { [id |-> id, type |-> "LessonLearned", title |-> <<"A", "b">>,
       summary |-> LongSummary, tags |-> {<<"a", "b">>, <<"b">>},
       rationale |-> "because", links |-> {"b"}],
      [id |-> id, type |-> "StrategicDecision", title |-> <<"B">>,
       summary |-> <<"a">>, tags |-> {<<"A", "b">>, <<"a", "b", "b">>},
       rationale |-> "because"],
      [id |-> id] }

QueryEntries == UNION {QueryShapes(id) : id \in QueryIds}

NextQuery ==
    \/ /\ Len(memory_file) < MaxLog
       /\ \E entry \in QueryEntries : append_entry(entry)
    \/ /\ Len(memory_file) < MaxLog
       /\ \E id \in QueryIds : deprecate_entry(id, "")
    \/ \E id \in QueryIds, max_words \in MaxWordsValues : get_summary(id, max_words)
    \/ \E k \in Keywords, c \in QueryCategories, t \in QueryTagSets :
          search_entries(k, c, t)
    \/ clear_cache

SpecQuery == Init /\ [][NextQuery]_vars

----------------------------------------------------------------------------
(* Two stores opened on the same file: this one, with its cache, and one   *)
(* in another process that appends to the file.  Each append is one step.  *)

SharedIds == {"", "a", "b"}

SharedEntries ==
    {[id |-> id, type |-> "LessonLearned"] : id \in SharedIds}
    \cup {[id |-> "a", type |-> "LessonLearned", summary |-> <<"a">>],
          [id |-> "a", type |-> "LessonLearned", attachment |-> "object"],
          [type |-> "LessonLearned"]}

NextShared ==
    \/ /\ Len(memory_file) < MaxLog
       /\ \E entry \in SharedEntries : append_entry(entry)
    \/ /\ Len(memory_file) < MaxLog
       /\ \E entry \in SharedEntries : other_append_entry(entry)
    \/ /\ Len(memory_file) < MaxLog
       /\ \E id \in SharedIds : deprecate_entry(id, "")
    \/ \E id \in SharedIds : get_entry(id)
    \/ \E d \in BOOLEAN : list_entries("", {}, d)
    \/ \E k \in Keywords : search_entries(k, "", {})
    \/ \E d \in BOOLEAN : get_entry_count(d)
    \/ \E d \in BOOLEAN : stream_entries("", {}, d)
    \/ \E id \in SharedIds : get_summary(id, MaxWords)
    \/ clear_cache

SpecShared == Init /\ [][NextShared]_vars

----------------------------------------------------------------------------
(* Claims about the store. *)

IdsOf(entries) == {Get(e, "id", "") : e \in entries}

Range(seq) == {seq[i] : i \in 1 .. Len(seq)}

Filters == (Categories \cup {""}) \X (TagSets \cup {{}}) \X BOOLEAN

\* The cache a full replay of the current file yields.
ReplayedCache == EnsureCacheLoaded(EmptyDict, FALSE, memory_file)

\* The positions of the well-formed records of the file, and the last one
\* that holds a given id.
WellFormed == {i \in 1 .. Len(memory_file) : ParsesAt(memory_file, i)}

RecordsOf(id) == {i \in WellFormed : Get(memory_file[i].entry, "id", "") = id}

LastRecordOf(id) ==
    memory_file[CHOOSE i \in RecordsOf(id) : \A j \in RecordsOf(id) : j <= i].entry

\* C1: after any sequence of append and deprecate calls, the cache obtained
\* by a full replay of the file holds exactly one entry per id that occurs in
\* a well-formed record, and that entry is the last record appended for the
\* id.
C1_ReplayIsLastWriteWins ==
    /\ DOMAIN ReplayedCache = {Get(memory_file[i].entry, "id", "") : i \in WellFormed}
    /\ \A id \in DOMAIN ReplayedCache : ReplayedCache[id] = LastRecordOf(id)

IsPrefix(s, t) == Len(s) <= Len(t) /\ \A i \in 1 .. Len(s) : s[i] = t[i]

\* C2: the file is append-only: whatever the operation, the previous contents
\* are an unchanged prefix of the new contents.
C2_AppendOnly == [][IsPrefix(memory_file, memory_file')]_vars

\* An entry and the record that deprecates it are both in the file, read and
\* indexed.
C2_Witness ==
    /\ Len(memory_file) >= 2
    /\ memory_file[1].kind = "line"
    /\ memory_file[2].kind = "line"
    /\ memory_file[1].entry["id"] = memory_file[2].entry["id"]
    /\ ~IsDeprecated(memory_file[1].entry)
    /\ IsDeprecated(memory_file[2].entry)
    /\ cache_loaded
    /\ built

\* C3: append is atomic at the granularity of a record: an append call either
\* adds exactly one complete record at the end of the file or fails and adds
\* nothing, leaving the cache as it was; so the file never holds a partially
\* written record.
C3_AppendIsAtomic ==
    [][(\E entry \in StoreEntries : append_entry(entry)) =>
         \/ /\ raised' = "none"
            /\ Len(memory_file') = Len(memory_file) + 1
            /\ IsPrefix(memory_file, memory_file')
            /\ memory_file'[Len(memory_file')].kind = "line"
         \/ /\ raised' # "none"
            /\ memory_file' = memory_file
            /\ cache' = cache]_vars

\* The non-empty ids of a result (an entry whose id is "" is never replayed,
\* so only the stream can yield it).
NonEmptyIdsOf(entries) == IdsOf(entries) \ {""}

\* C4 as stated: for any file and any filter, stream_entries yields the same
\* set of ids as list_entries (here already narrowed to the non-empty ids).
C4_StreamIdsEqualListIds ==
    \A f \in Filters :
        NonEmptyIdsOf(Range(StreamResult(f[1], f[2], f[3])))
            = NonEmptyIdsOf(ListResult(f[1], f[2], f[3]))

\* No two well-formed records share an id, and no id is empty.
OneRecordPerId ==
    \A i \in WellFormed :
        /\ TruthyId(memory_file[i].entry)
        /\ RecordsOf(memory_file[i].entry["id"]) = {i}

\* C4 as amended: when list_entries works on a replay of the file, every id
\* it returns is yielded by stream_entries under the same filter, and the two
\* sets of ids are equal when every well-formed record has a non-empty id of
\* its own.
C4_ListIdsWithinStreamIds ==
    \A f \in Filters :
        LET streamed == IdsOf(Range(StreamResult(f[1], f[2], f[3])))
            listed == IdsOf(ListEntries(ReplayedCache, f[1], f[2], f[3]))
        IN  /\ listed \subseteq streamed
            /\ OneRecordPerId => listed = streamed

\* An id appended twice, the second time deprecated, about to be replayed:
\* the stream still yields the superseded record, the list does not.
C4_Witness ==
    /\ ~cache_loaded
    /\ Len(memory_file) = 2
    /\ WellFormed = {1, 2}
    /\ memory_file[1].entry["id"] = "a"
    /\ memory_file[2].entry["id"] = "a"
    /\ IsDeprecated(memory_file[2].entry)
    /\ IdsOf(Range(StreamResult("", {}, FALSE))) = {"a"}
    /\ IdsOf(ListResult("", {}, FALSE)) = {}
    /\ IdsOf(ListResult("", {}, TRUE)) = {"a"}

----------------------------------------------------------------------------
(* KnowledgeGraph *)

\* build_graph: the forward map has a key for every listed entry with a truthy
\* id and holds the set of its links; the reverse map has a key for every
\* link target and holds the set of entries linking to it.
\* build_graph adding an edge only when its target is a live entry.
ForwardOf_LiveTargetsOnly(c) ==
    LET entries == {e \in ListEntries(c, "", {}, FALSE) : TruthyId(e)}
        live == {e["id"] : e \in entries}
    IN  [id \in live |->
            UNION {Get(e, "links", {}) \cap live : e \in {x \in entries : x["id"] = id}}]

\* The forward map built from list_entries(include_deprecated=True).
ForwardOf_WithDeprecated(c) ==
    LET entries == {e \in ListEntries(c, "", {}, TRUE) : TruthyId(e)}
    IN  [id \in {e["id"] : e \in entries} |->
            UNION {Get(e, "links", {}) : e \in {x \in entries : x["id"] = id}}]

ForwardOf(c) ==
    LET entries == {e \in ListEntries(c, "", {}, FALSE) : TruthyId(e)}
    IN  [id \in {e["id"] : e \in entries} |->
            UNION {Get(e, "links", {}) : e \in {x \in entries : x["id"] = id}}]

\* The reverse index kept only for targets that are nodes themselves.
ReverseOf_NodesOnly(c) ==
    LET fwd == ForwardOf(c)
    IN  [linked_id \in (UNION {fwd[id] : id \in DOMAIN fwd}) \cap DOMAIN fwd |->
            {id \in DOMAIN fwd : linked_id \in fwd[id]}]

ReverseOf(c) ==
    LET fwd == ForwardOf(c)
    IN  [linked_id \in UNION {fwd[id] : id \in DOMAIN fwd} |->
            {id \in DOMAIN fwd : linked_id \in fwd[id]}]

\* `if not self._built: self.build_graph()`: the graph, and the cache that
\* build_graph's list_entries leaves behind, as a query works on them.
BuiltView ==
    IF built
    THEN [graph |-> graph, reverse_graph |-> reverse_graph,
          cache |-> cache, cache_loaded |-> cache_loaded]
    ELSE LET c == EnsureCacheLoaded(cache, cache_loaded, memory_file)
         IN  [graph |-> ForwardOf(c), reverse_graph |-> ReverseOf(c),
              cache |-> c, cache_loaded |-> TRUE]

\* One level of the loop without the tests `not in visited`.
NextLevel_Revisiting(g, rg, current_level, visited, include_reverse) ==
    UNION {g[id] : id \in current_level \cap DOMAIN g}
       \cup (IF include_reverse
             THEN UNION {rg[id] : id \in current_level \cap DOMAIN rg}
             ELSE {})

\* One level of get_related's loop: the unvisited neighbours of the level.
NextLevel(g, rg, current_level, visited, include_reverse) ==
    (UNION {g[id] : id \in current_level \cap DOMAIN g}
       \cup (IF include_reverse
             THEN UNION {rg[id] : id \in current_level \cap DOMAIN rg}
             ELSE {}))
    \ visited

\* `for _ in range(depth)`, with the break on an empty level.
RECURSIVE Bfs(_, _, _, _, _, _, _)
Bfs(g, rg, current_level, visited, all_related_ids, remaining, include_reverse) ==
    IF remaining <= 0 THEN all_related_ids
    ELSE LET next_level == NextLevel(g, rg, current_level, visited, include_reverse)
         IN  IF next_level = {} THEN all_related_ids
             ELSE Bfs(g, rg, next_level, visited \cup next_level,
                      all_related_ids \cup next_level, remaining - 1, include_reverse)

\* The passes of `for _ in range(depth)`: the next_level of each pass the
\* loop makes, the empty one it breaks on included.
RECURSIVE BfsLevels(_, _, _, _, _, _)
BfsLevels(g, rg, current_level, visited, remaining, include_reverse) ==
    IF remaining <= 0 THEN <<>>
    ELSE LET next_level == NextLevel(g, rg, current_level, visited, include_reverse)
         IN  <<next_level>>
             \o (IF next_level = {} THEN <<>>
                 ELSE BfsLevels(g, rg, next_level, visited \cup next_level,
                                remaining - 1, include_reverse))

\* get_related looping range(depth + 1) times.
RelatedIds_OneLevelMore(g, rg, entry_id, depth, include_reverse) ==
    IF entry_id \notin DOMAIN g THEN {}
    ELSE Bfs(g, rg, {entry_id}, {entry_id}, {}, depth + 1, include_reverse)

\* get_related without its `if entry_id not in self._graph: return []`.
RelatedIds_NoNodeCheck(g, rg, entry_id, depth, include_reverse) ==
    Bfs(g, rg, {entry_id}, {entry_id}, {}, depth, include_reverse)

\* get_related starting with an empty visited set.
RelatedIds_StartNotVisited(g, rg, entry_id, depth, include_reverse) ==
    IF entry_id \notin DOMAIN g THEN {}
    ELSE Bfs(g, rg, {entry_id}, {}, {}, depth, include_reverse)

\* get_related up to "Fetch actual entries": all_related_ids.
RelatedIds(g, rg, entry_id, depth, include_reverse) ==
    IF entry_id \notin DOMAIN g THEN {}
    ELSE Bfs(g, rg, {entry_id}, {entry_id}, {}, depth, include_reverse)

\* A fetch loop that gives up on the first id get_entry does not find.
Fetch_StopsAtMissing(c, ids) ==
    IF ids \subseteq DOMAIN c
    THEN {c[id] : id \in {i \in ids : ~IsDeprecated(c[i])}}
    ELSE {}

\* The fetch loops of get_related and get_dependents: get_entry on each id,
\* keeping the entries that exist and are not deprecated.
Fetch(c, ids) == {c[id] : id \in {i \in ids \cap DOMAIN c : ~IsDeprecated(c[i])}}

\* The depth get_dependencies passes to get_related.
DependencyDepth == 100

\* get_dependents up to its fetch loop.
DependentIds(rg, entry_id) ==
    IF entry_id \notin DOMAIN rg THEN {} ELSE rg[entry_id]

\* build_graph without its two clear() calls: the new links pile up on the
\* maps of the previous build.
build_graph_Accumulating ==
    LET c == EnsureCacheLoaded(cache, cache_loaded, memory_file)
        merged(old, new) == [id \in DOMAIN old \cup DOMAIN new |->
                                Get(old, id, {}) \cup Get(new, id, {})]
    IN  /\ graph' = merged(graph, ForwardOf(c))
        /\ reverse_graph' = merged(reverse_graph, ReverseOf(c))
        /\ built' = TRUE
        /\ cache' = c
        /\ cache_loaded' = TRUE
        /\ raised' = "none"
        /\ UNCHANGED <<memory_file, clock>>

\* build_graph dropping from the cache the deprecated entries it skips.
build_graph_Pruning ==
    LET c == EnsureCacheLoaded(cache, cache_loaded, memory_file)
    IN  /\ graph' = ForwardOf(c)
        /\ reverse_graph' = ReverseOf(c)
        /\ built' = TRUE
        /\ cache' = [id \in {k \in DOMAIN c : ~IsDeprecated(c[k])} |-> c[id]]
        /\ cache_loaded' = TRUE
        /\ raised' = "none"
        /\ UNCHANGED <<memory_file, clock>>

\* When list_entries raises, both maps have been cleared already and _built
\* keeps its value.
build_graph ==
    LET c == EnsureCacheLoaded(cache, cache_loaded, memory_file)
    IN  IF LoadRaises(cache_loaded, memory_file)
        THEN /\ graph' = EmptyDict
             /\ reverse_graph' = EmptyDict
             /\ cache' = c
             /\ raised' = "LoadFailed"
             /\ UNCHANGED <<built, cache_loaded, memory_file, clock>>
        ELSE /\ graph' = ForwardOf(c)
             /\ reverse_graph' = ReverseOf(c)
             /\ built' = TRUE
             /\ cache' = c
             /\ cache_loaded' = TRUE
             /\ raised' = "none"
             /\ UNCHANGED <<memory_file, clock>>

\* A query that builds if needed and then calls get_entry on each of `ids`
\* (and so replays the file if the cache was cleared since the build).
QueryStep(ids) ==
    LET v == BuiltView
    IN  IF ~built /\ LoadRaises(cache_loaded, memory_file)
        THEN build_graph
        ELSE IF ids # {} /\ LoadRaises(v.cache_loaded, memory_file)
        THEN /\ cache' = EnsureCacheLoaded(v.cache, v.cache_loaded, memory_file)
             /\ raised' = "LoadFailed"
             /\ UNCHANGED <<graph_vars, cache_loaded, memory_file, clock>>
        ELSE /\ graph' = v.graph
             /\ reverse_graph' = v.reverse_graph
             /\ built' = TRUE
             /\ cache' = IF ids # {}
                         THEN EnsureCacheLoaded(v.cache, v.cache_loaded, memory_file)
                         ELSE v.cache
             /\ cache_loaded' = (v.cache_loaded \/ ids # {})
             /\ raised' = "none"
             /\ UNCHANGED <<memory_file, clock>>

get_related(entry_id, depth, include_reverse) ==
    QueryStep(RelatedIds(BuiltView.graph, BuiltView.reverse_graph,
                         entry_id, depth, include_reverse))

get_dependencies(entry_id) == get_related(entry_id, DependencyDepth, FALSE)

get_dependents(entry_id) ==
    QueryStep(DependentIds(BuiltView.reverse_graph, entry_id))

\* get_entry_network without the build its get_related starts with: only
\* the get_entry on the center is left to touch the state.
get_entry_network_NoBuild(entry_id, max_depth) ==
    /\ cache' = EnsureCacheLoaded(cache, cache_loaded, memory_file)
    /\ cache_loaded' = TRUE
    /\ raised' = "none"
    /\ UNCHANGED <<graph_vars, memory_file, clock>>

\* get_entry_network always calls get_entry on the center.
get_entry_network(entry_id, max_depth) == QueryStep({entry_id})

\* find_by_concept builds if needed and then reads list_entries, which
\* replays the file as get_entry does.
find_by_concept(concept) == QueryStep({concept})

\* find_by_tag is list_entries(tags=[tag]) and never builds.
find_by_tag(tag) == list_entries("", {tag}, FALSE)

\* get_graph_stats builds if needed and reads the two maps only.
get_graph_stats == QueryStep({})

\* The passes get_related makes in the current state.
RelatedLevels(entry_id, depth, include_reverse) ==
    LET v == BuiltView
    IN  IF entry_id \notin DOMAIN v.graph THEN <<>>
        ELSE BfsLevels(v.graph, v.reverse_graph, {entry_id}, {entry_id},
                       depth, include_reverse)

\* What the queries return in the current state.
RelatedResult(entry_id, depth, include_reverse) ==
    LET v == BuiltView
        ids == RelatedIds(v.graph, v.reverse_graph, entry_id, depth, include_reverse)
    IN  Fetch(EnsureCacheLoaded(v.cache, v.cache_loaded, memory_file), ids)

DependenciesResult(entry_id) == RelatedResult(entry_id, DependencyDepth, FALSE)

DependentsResult(entry_id) ==
    LET v == BuiltView
    IN  Fetch(EnsureCacheLoaded(v.cache, v.cache_loaded, memory_file),
              DependentIds(v.reverse_graph, entry_id))

NetworkNodes(entry_id, max_depth) ==
    Fetch(EnsureCacheLoaded(BuiltView.cache, BuiltView.cache_loaded, memory_file),
          {entry_id})
    \cup RelatedResult(entry_id, max_depth, TRUE)

\* The edges list without its test that the target is one of the nodes.
NetworkEdges_AnyTarget(entry_id, max_depth) ==
    LET nodes == NetworkNodes(entry_id, max_depth)
        node_ids == {Get(n, "id", "") : n \in nodes}
        g == BuiltView.graph
    IN  UNION {{<<node_id, linked_id>> : linked_id \in g[node_id]} :
                  node_id \in node_ids \cap DOMAIN g}

NetworkEdges(entry_id, max_depth) ==
    LET nodes == NetworkNodes(entry_id, max_depth)
        node_ids == {Get(n, "id", "") : n \in nodes}
        g == BuiltView.graph
    IN  {<<node_id, linked_id>> \in (node_ids \cap DOMAIN g) \X node_ids :
            linked_id \in g[node_id]}

NetworkResult(entry_id, max_depth) ==
    [nodes |-> NetworkNodes(entry_id, max_depth),
     edges |-> NetworkEdges(entry_id, max_depth)]

\* sum(len(links) for links in g.values())
RECURSIVE SumOfSizes(_, _)
SumOfSizes(g, keys) ==
    IF keys = {} THEN 0
    ELSE LET k == CHOOSE x \in keys : TRUE
         IN  Cardinality(g[k]) + SumOfSizes(g, keys \ {k})

\* max(len(links) for links in g.values()) if g else 0
MaxOfSizes(g) ==
    IF DOMAIN g = {} THEN 0
    ELSE LET sizes == {Cardinality(g[k]) : k \in DOMAIN g}
         IN  CHOOSE m \in sizes : \A n \in sizes : n <= m

StatsResult ==
    LET v == BuiltView
    IN  [total_nodes |-> Cardinality(DOMAIN v.graph),
         total_edges |-> SumOfSizes(v.graph, DOMAIN v.graph),
         max_outgoing_links |-> MaxOfSizes(v.graph),
         max_incoming_links |-> MaxOfSizes(v.reverse_graph)]

----------------------------------------------------------------------------
(* The callers of the graph: entries that differ in their links. *)

\* Concepts and tags searched for.
Concepts == {"modularity"}

GraphTags == {"test"}

GraphIds == {"a", "b", "c"}

LinkSets == {{"a"}, {"b"}, {"a", "b"}}

\* range(depth) is empty for a depth of 0 or less.
Depths == -1 .. MaxDepth

GraphEntries ==
    {[id |-> id] : id \in GraphIds}
    \cup {[id |-> id, links |-> links] : id \in GraphIds, links \in LinkSets}
    \cup {[id |-> "a", attachment |-> "object"]}
    \cup {[links |-> {"a"}]}
    \cup {[id |-> "", links |-> {"a"}]}

NextGraph ==
    \/ /\ Len(memory_file) < MaxLog
       /\ \E entry \in GraphEntries : append_entry(entry)
    \/ /\ Len(memory_file) < MaxLog
       /\ \E id \in GraphIds : deprecate_entry(id, "")
    \/ \E id \in GraphIds : get_entry(id)
    \/ \E d \in BOOLEAN : list_entries("", {}, d)
    \/ \E d \in BOOLEAN : stream_entries("", {}, d)
    \/ clear_cache
    \/ build_graph
    \/ \E id \in GraphIds, depth \in Depths, r \in BOOLEAN : get_related(id, depth, r)
    \/ \E id \in GraphIds : get_dependencies(id)
    \/ \E id \in GraphIds : get_dependents(id)
    \/ \E id \in GraphIds, depth \in Depths : get_entry_network(id, depth)
    \/ \E concept \in Concepts : find_by_concept(concept)
    \/ \E tag \in GraphTags : find_by_tag(tag)
    \/ get_graph_stats

SpecGraph == Init /\ [][NextGraph]_vars

----------------------------------------------------------------------------
(* A caller that appends one long chain of entries, each linking to the    *)
(* one before it, then builds the graph and queries its head.              *)

ChainLength == DependencyDepth + 2

ChainId(n) == ToString(n)

ChainEntry(n) ==
    IF n = 1 THEN [id |-> ChainId(1)]
    ELSE [id |-> ChainId(n), links |-> {ChainId(n - 1)}]

ChainHead == ChainId(Len(memory_file))

ChainDepths == {1, DependencyDepth, DependencyDepth + 1}

NextChain ==
    \/ /\ ~built
       /\ Len(memory_file) < ChainLength
       /\ append_entry(ChainEntry(Len(memory_file) + 1))
    \/ build_graph
    \/ \E depth \in ChainDepths : get_related(ChainHead, depth, FALSE)
    \/ get_dependencies(ChainHead)

SpecChain == Init /\ [][NextChain]_vars

----------------------------------------------------------------------------
(* A caller that records a path of entries, deprecates some of them and    *)
(* queries the graph before and after building it again.                   *)

MaxPath == 4

PathEntries ==
    {[id |-> "a", links |-> {"b"}],
     [id |-> "a", links |-> {"b", "c"}],
     [id |-> "b", links |-> {"c"}],
     [id |-> "c"],
     [id |-> "c", links |-> {"a"}],
     [id |-> "", links |-> {"c"}],
     [id |-> "a", attachment |-> "object"]}

NextPath ==
    \/ /\ Len(memory_file) < MaxPath
       /\ \E entry \in PathEntries : append_entry(entry)
    \/ /\ Len(memory_file) < MaxPath
       /\ \E id \in GraphIds : deprecate_entry(id, "")
    \/ clear_cache
    \/ build_graph
    \/ \E id \in GraphIds, depth \in Depths : get_related(id, depth, FALSE)
    \/ \E id \in GraphIds : get_dependencies(id)

SpecPath == Init /\ [][NextPath]_vars

----------------------------------------------------------------------------
(* Claims about the graph. *)

\* The state build_graph leaves behind: the cache is loaded and both maps are
\* those of the current cache.
JustBuilt ==
    /\ built
    /\ cache_loaded
    /\ graph = ForwardOf(cache)
    /\ reverse_graph = ReverseOf(cache)

\* Every value a traversal can return in the current state.
TraversalResults ==
    [id \in GraphIds |->
        [related |-> [p \in Depths \X BOOLEAN |-> RelatedResult(id, p[1], p[2])],
         dependencies |-> DependenciesResult(id),
         dependents |-> DependentsResult(id),
         network |-> [d \in Depths |-> NetworkResult(id, d)]]]

\* C5 as stated: once the graph is built, the results of get_related,
\* get_dependencies, get_dependents and get_entry_network stay what they
\* were until build_graph is called again.
C5_ResultsFrozenUntilBuild ==
    [][(built /\ ~build_graph) => TraversalResults' = TraversalResults]_vars

\* C5 as amended: once the graph is built, the forward and reverse maps stay
\* those of the last build until build_graph is called again, whatever is
\* appended or deprecated in between; and what a traversal returns are
\* entries of the current cache that are not deprecated now.
C5_AdjacencyFrozenUntilBuild ==
    /\ [][(built /\ ~build_graph) =>
            (built' /\ graph' = graph /\ reverse_graph' = reverse_graph)]_vars
    /\ [](\A id \in GraphIds, d \in Depths, r \in BOOLEAN :
            \A e \in RelatedResult(id, d, r) :
                /\ ~IsDeprecated(e)
                /\ e \in Values(EnsureCacheLoaded(BuiltView.cache,
                                                  BuiltView.cache_loaded, memory_file)))

\* The graph was built while "b", a link of "a", was dangling; "b" was
\* appended afterwards and get_related("a") returns it without a rebuild.
C5_Witness ==
    /\ built
    /\ "a" \in DOMAIN graph
    /\ "b" \in graph["a"]
    /\ "b" \notin DOMAIN graph
    /\ "b" \in DOMAIN cache
    /\ ~IsDeprecated(cache["b"])
    /\ RelatedResult("a", 1, FALSE) = {cache["b"]}

\* C6: with include_reverse = false, get_related(id, d1) is within
\* get_related(id, d2) for d1 <= d2, and get_related(id, d) is within
\* get_dependencies(id) for every depth d.
C6_RelatedGrowsUpToDependencies ==
    built =>
        \A id \in DOMAIN graph :
            /\ \A d1, d2 \in ChainDepths :
                  d1 <= d2 => IdsOf(RelatedResult(id, d1, FALSE))
                                \subseteq IdsOf(RelatedResult(id, d2, FALSE))
            /\ \A d \in ChainDepths :
                  IdsOf(RelatedResult(id, d, FALSE)) \subseteq IdsOf(DependenciesResult(id))

\* The ids reachable from `frontier` by forward edges, added to `reached`.
RECURSIVE ForwardClosure(_, _, _)
ForwardClosure(g, reached, frontier) ==
    IF frontier = {} THEN reached
    ELSE LET found == UNION {g[id] : id \in frontier \cap DOMAIN g} \ reached
         IN  ForwardClosure(g, reached \cup found, found)

\* The ids that one or more forward edges lead to from id (other than id).
ForwardReachable(g, id) == ForwardClosure(g, g[id], g[id]) \ {id}

\* C7: right after a build, get_dependencies(id) returns exactly the
\* non-deprecated cached entries reachable from id by one or more forward
\* edges, however long the path.
C7_DependenciesIsForwardClosure ==
    JustBuilt =>
        \A id \in DOMAIN graph :
            /\ DependenciesResult(id) \subseteq Values(cache)
            /\ IdsOf(DependenciesResult(id)) =
                  {k \in ForwardReachable(graph, id) \cap DOMAIN cache :
                      ~IsDeprecated(cache[k])}

\* The ids within k steps of S, a step following a forward edge or, with
\* include_reverse, a reverse edge as well; S included.
RECURSIVE WithinSteps(_, _, _, _, _)
WithinSteps(g, rg, S, k, include_reverse) ==
    IF k <= 0 THEN S
    ELSE WithinSteps(g, rg,
                     S \cup UNION {g[id] : id \in S \cap DOMAIN g}
                       \cup (IF include_reverse
                             THEN UNION {rg[id] : id \in S \cap DOMAIN rg}
                             ELSE {}),
                     k - 1, include_reverse)

\* C8: right after a build, for an id that is a node of the graph,
\* get_related(id, depth, include_reverse) returns exactly the non-deprecated
\* cached entries at a distance between 1 and depth from id, a step following
\* a forward edge, or a reverse edge as well when include_reverse is set.
C8_RelatedIsWithinDepth ==
    JustBuilt =>
        \A id \in DOMAIN graph, d \in Depths, r \in BOOLEAN :
            /\ RelatedResult(id, d, r) \subseteq Values(cache)
            /\ IdsOf(RelatedResult(id, d, r)) =
                  {k \in (WithinSteps(graph, reverse_graph, {id}, d, r) \ {id})
                           \cap DOMAIN cache :
                      ~IsDeprecated(cache[k])}

\* Scenario A, just built: a has no links, b links to a, c links to b.
C8_Witness ==
    /\ JustBuilt
    /\ DOMAIN cache = {"a", "b", "c"}
    /\ graph = [id \in {"a", "b", "c"} |->
                  IF id = "c" THEN {"b"} ELSE IF id = "b" THEN {"a"} ELSE {}]
    /\ IdsOf(RelatedResult("c", 1, FALSE)) = {"b"}
    /\ IdsOf(RelatedResult("c", 2, FALSE)) = {"a", "b"}
    /\ IdsOf(DependenciesResult("c")) = {"a", "b"}

\* The ids no append call was ever made with.
NeverAppended ==
    {id \in GraphIds :
        \A i \in 1 .. Len(memory_file) : Get(memory_file[i].entry, "id", "") # id}

\* The maps without the dangling links.
WithoutDangling(g) == [id \in DOMAIN g |-> g[id] \ NeverAppended]

ReverseWithoutDangling(rg) == [id \in DOMAIN rg \ NeverAppended |-> rg[id]]

\* C9: a link to an id that was never appended appears in no result of
\* get_related, get_dependencies, get_dependents or get_entry_network, and
\* takes nothing away from what the other links of the entry reach.
C9_DanglingLinksIgnored ==
    LET v == BuiltView
        c == EnsureCacheLoaded(v.cache, v.cache_loaded, memory_file)
    IN  \A id \in GraphIds :
            /\ IdsOf(DependenciesResult(id)) \cap NeverAppended = {}
            /\ IdsOf(DependentsResult(id)) \cap NeverAppended = {}
            /\ \A d \in Depths :
                  /\ IdsOf(NetworkNodes(id, d)) \cap NeverAppended = {}
                  /\ \A edge \in NetworkEdges(id, d) :
                        edge[1] \notin NeverAppended /\ edge[2] \notin NeverAppended
            /\ \A d \in Depths, r \in BOOLEAN :
                  /\ IdsOf(RelatedResult(id, d, r)) \cap NeverAppended = {}
                  /\ Fetch(c, RelatedIds(WithoutDangling(v.graph),
                                         ReverseWithoutDangling(v.reverse_graph),
                                         id, d, r))
                        \subseteq RelatedResult(id, d, r)

\* c links to a, which was never appended, and to b, which get_related
\* returns.
C9_Witness ==
    /\ built
    /\ "a" \in NeverAppended
    /\ "c" \in DOMAIN graph
    /\ graph["c"] = {"a", "b"}
    /\ IdsOf(RelatedResult("c", 1, FALSE)) = {"b"}
    /\ IdsOf(DependenciesResult("c")) = {"b"}

\* C10: right after a build, get_dependents(id) is exactly the set of
\* non-deprecated entries whose links contain id: the direct reverse
\* neighbours, never an entry that reaches id only through two or more hops.
\* (The cache is loaded after a build, so the entries are its values.)
C10_DependentsAreDirectLinkers ==
    JustBuilt =>
        \A id \in GraphIds :
            DependentsResult(id) =
                {e \in Values(cache) : ~IsDeprecated(e) /\ id \in Get(e, "links", {})}

\* The maps a build would produce now.
Fresh ==
    LET c == EnsureCacheLoaded(cache, cache_loaded, memory_file)
    IN  /\ built
        /\ graph = ForwardOf(c)
        /\ reverse_graph = ReverseOf(c)

\* C11: build_graph is idempotent: when the maps are those of a build and
\* neither an append nor a deprecation follows (the file stays as it is),
\* another build yields the same maps.
C11_BuildIsIdempotent ==
    [][(Fresh /\ memory_file' = memory_file) => Fresh']_vars

\* The adjacency read off a cache, key by key: a node for every non-empty key
\* whose entry is not deprecated, with the entry's links; and the same edges
\* turned around.
AdjacencyOf(c) ==
    [k \in {id \in DOMAIN c : id # "" /\ ~IsDeprecated(c[id])} |->
        Get(c[k], "links", {})]

ReverseAdjacencyOf(c) ==
    LET fwd == AdjacencyOf(c)
    IN  [t \in UNION {fwd[k] : k \in DOMAIN fwd} |-> {k \in DOMAIN fwd : t \in fwd[k]}]

\* C12: the maps build_graph produces are a function of the contents of the
\* cache alone, whatever the order of the appends, the superseded records of
\* the file or the maps of the previous build.
C12_AdjacencyIsFunctionOfCache ==
    [][build_graph => /\ graph' = AdjacencyOf(cache')
                      /\ reverse_graph' = ReverseAdjacencyOf(cache')]_vars

\* A rebuild over a cache whose entry for "a" superseded a record with other
\* links: the maps hold the links of the cached entry only.
C12_Witness ==
    /\ JustBuilt
    /\ Len(memory_file) >= 2
    /\ WellFormed = 1 .. Len(memory_file)
    /\ Get(memory_file[1].entry, "id", "") = "a"
    /\ Get(memory_file[2].entry, "id", "") = "a"
    /\ Get(memory_file[1].entry, "links", {}) = {"a", "b"}
    /\ Get(memory_file[2].entry, "links", {}) = {"b"}
    /\ "a" \in DOMAIN graph
    /\ graph["a"] = {"b"}
    /\ reverse_graph = ("b" :> {"a"})

----------------------------------------------------------------------------
(* Claims about the failures and the filters of the store. *)

\* C13: append_entry called with an entry that has no id fails with the
\* missing-identifier error and leaves the file, the cache and the
\* cache-loaded flag as they were.
C13_MissingIdFailsCleanly ==
    [][\A entry \in StoreEntries :
          ("id" \notin DOMAIN entry /\ append_entry(entry)) =>
              /\ raised' = "MissingIdentifier"
              /\ UNCHANGED <<memory_file, cache, cache_loaded>>]_vars

\* An append without id has just failed on a store that holds records and a
\* loaded cache.
C13_Witness ==
    /\ raised = "MissingIdentifier"
    /\ Len(memory_file) >= 1
    /\ cache_loaded
    /\ cache # EmptyDict

\* C14: deprecate_entry of an id the cache (replayed if need be) has no
\* entry for fails with the not-found error and appends nothing: the file is
\* unchanged and the cache gets no entry for the id.
C14_DeprecateAbsentFails ==
    [][\A id \in StoreIds, reason \in Reasons :
          (/\ id \notin DOMAIN EnsureCacheLoaded(cache, cache_loaded, memory_file)
           /\ deprecate_entry(id, reason)) =>
              /\ raised' = "NotFound"
              /\ memory_file' = memory_file
              /\ id \notin DOMAIN cache']_vars

\* A deprecation has just failed for want of the entry, on a store that
\* holds a record of another id.
C14_Witness ==
    /\ raised = "NotFound"
    /\ Len(memory_file) >= 1
    /\ cache_loaded
    /\ cache # EmptyDict

\* The keys deprecate_entry sets on its copy of the entry.
DeprecationKeys == {"deprecated", "timestamp_deprecated", "deprecation_reason"}

\* C15: deprecate_entry of an existing id appends exactly one record and
\* rewrites nothing: the records read back from the file are the earlier
\* ones, unchanged, followed by the new one; the new record is the current
\* entry of the id except for deprecated = true, timestamp_deprecated and the
\* optional deprecation_reason; get_entry(id) then returns it, and the entry
\* of every other id is as before.
C15_DeprecateAppendsOneRecord ==
    [][\A id \in StoreIds, reason \in Reasons :
          LET c == EnsureCacheLoaded(cache, cache_loaded, memory_file)
              new == memory_file'[Len(memory_file')].entry
          IN  (id \in DOMAIN c /\ deprecate_entry(id, reason)) =>
                  /\ raised' = "none"
                  /\ IsPrefix(memory_file, memory_file')
                  /\ ParsedEntries(memory_file') =
                        Append(ParsedEntries(memory_file), new)
                  /\ DOMAIN new \subseteq DOMAIN c[id] \cup DeprecationKeys
                  /\ \A k \in DOMAIN c[id] \ DeprecationKeys : new[k] = c[id][k]
                  /\ new["deprecated"] = TRUE
                  /\ "timestamp_deprecated" \in DOMAIN new
                  /\ reason # "" => new["deprecation_reason"] = reason
                  /\ GetEntryResult(id)' = {new}
                  /\ \A other \in StoreIds \ {id} :
                        GetEntryResult(other)' =
                            IF other \in DOMAIN c THEN {c[other]} ELSE {}]_vars

\* The successful append calls made with an id, and the record of the last.
AppendedRecords(id) ==
    {i \in 1 .. Len(memory_file) :
        memory_file[i].kind = "line" /\ Get(memory_file[i].entry, "id", "") = id}

LastAppended(id) ==
    memory_file[CHOOSE i \in AppendedRecords(id) :
                    \A j \in AppendedRecords(id) : j <= i].entry

\* C16: after any sequence of operations, list_entries without deprecated
\* entries returns no entry whose last-appended record is deprecated,
\* list_entries with them returns every id of the cache, and get_entry
\* returns the last-appended record of an id, deprecated or not.
C16_ListAndGetFollowLastRecord ==
    /\ \A e \in ListResult("", {}, FALSE) :
          /\ AppendedRecords(e["id"]) # {}
          /\ ~IsDeprecated(LastAppended(e["id"]))
    /\ IdsOf(ListResult("", {}, TRUE))
          = DOMAIN EnsureCacheLoaded(cache, cache_loaded, memory_file)
    /\ \A id \in StoreIds :
          AppendedRecords(id) # {} => GetEntryResult(id) = {LastAppended(id)}

\* C17: list_entries(category, tags) returns exactly the cached entries that
\* are not deprecated, whose type is the category when one is given, and
\* whose tags include every requested tag.
C17_ListFiltersExactly ==
    \A category \in Categories \cup {""}, tags \in TagSets \cup {{}} :
        ListResult(category, tags, FALSE) =
            {e \in Values(EnsureCacheLoaded(cache, cache_loaded, memory_file)) :
                /\ ~IsDeprecated(e)
                /\ category # "" => ("type" \in DOMAIN e /\ e["type"] = category)
                /\ tags \subseteq Get(e, "tags", {})}

\* Scenario C: a has the tags foundation and p1, b the tags foundation and
\* p2; the tag foundation lists both, the tags foundation and p1 only a.
C17_Witness ==
    /\ cache_loaded
    /\ DOMAIN cache = {"a", "b"}
    /\ Get(cache["a"], "tags", {}) = {"foundation", "p1"}
    /\ Get(cache["b"], "tags", {}) = {"foundation", "p2"}
    /\ IdsOf(ListResult("", {"foundation"}, FALSE)) = {"a", "b"}
    /\ IdsOf(ListResult("", {"foundation", "p1"}, FALSE)) = {"a"}

----------------------------------------------------------------------------
(* A store opened on a file that is on disk already, and read. *)

\* Lines of the file on disk.
MaxLines == 3

\* What a line of such a file can be: a record, the partial record a failed
\* append left, text that is not JSON, JSON that is not an object.
DiskWrites ==
    {[kind |-> "line", entry |-> e] :
        e \in {[id |-> "a", type |-> "LessonLearned", deprecated |-> FALSE],
                [id |-> "a", type |-> "LessonLearned", deprecated |-> TRUE],
                [id |-> "b", type |-> "StrategicDecision", deprecated |-> FALSE]}}
    \cup {[kind |-> "fragment", entry |-> [id |-> "b", attachment |-> "object"]],
          [kind |-> "garbage", entry |-> [text |-> "not json"]],
          [kind |-> "nonrecord", entry |-> [json |-> "null"]]}

FilesOnDisk == UNION {[1 .. n -> DiskWrites] : n \in 0 .. MaxLines}

InitRead ==
    /\ memory_file \in FilesOnDisk
    /\ cache = EmptyDict
    /\ cache_loaded = FALSE
    /\ graph = EmptyDict
    /\ reverse_graph = EmptyDict
    /\ built = FALSE
    /\ clock = 1
    /\ raised = "none"

NextRead ==
    \/ \E id \in StoreIds : get_entry(id)
    \/ \E d \in BOOLEAN : list_entries("", {}, d)
    \/ \E c \in Categories \cup {""}, d \in BOOLEAN : stream_entries(c, {}, d)
    \/ clear_cache

SpecRead == InitRead /\ [][NextRead]_vars

\* C18: a corrupt line never aborts a bulk read: whatever the file, neither
\* the replay nor a stream raises; the replay holds the last well-formed
\* record of every id, before or after the corrupt line, and the stream
\* yields every well-formed record that passes its filter.
C18_CorruptLineNeverAborts ==
    /\ raised \notin {"LoadFailed", "StreamFailed"}
    /\ cache_loaded =>
          \A i \in WellFormed :
              LET id == memory_file[i].entry["id"]
              IN  id \in DOMAIN cache /\ cache[id] = LastRecordOf(id)
    /\ \A c \in Categories \cup {""}, d \in BOOLEAN :
          ~StreamRaises(memory_file, c, {}, d) =>
              \A i \in WellFormed :
                  Matches(memory_file[i].entry, c, {}, d) =>
                      memory_file[i].entry \in Range(StreamResult(c, {}, d))

----------------------------------------------------------------------------
(* Claims about absent ids and the network. *)

\* C19 as stated: for an id no record was ever appended for, get_related,
\* get_dependencies and get_dependents return nothing and get_entry_network
\* returns no nodes and no edges, even when other entries link to the id.
C19_AbsentIdYieldsNothing ==
    \A id \in NeverAppended :
        /\ \A d \in Depths, r \in BOOLEAN : RelatedResult(id, d, r) = {}
        /\ DependenciesResult(id) = {}
        /\ DependentsResult(id) = {}
        /\ \A d \in Depths : NetworkNodes(id, d) = {} /\ NetworkEdges(id, d) = {}

\* C19 as amended: for an id no record was ever appended for, no traversal
\* raises; get_related and get_dependencies return nothing and
\* get_entry_network returns no nodes and no edges, even when other entries
\* link to the id; get_dependents, right after a build, returns the entries
\* that link to the id: those with a non-empty id that are not deprecated.
C19_AbsentIdTraversal ==
    /\ [][\A id \in GraphIds :
            (/\ id \in NeverAppended
             /\ \/ get_dependencies(id)
                \/ get_dependents(id)
                \/ \E d \in Depths, r \in BOOLEAN : get_related(id, d, r)
                \/ \E d \in Depths : get_entry_network(id, d))
            => raised' = "none"]_vars
    /\ [](\A id \in NeverAppended :
            /\ \A d \in Depths, r \in BOOLEAN : RelatedResult(id, d, r) = {}
            /\ DependenciesResult(id) = {}
            /\ \A d \in Depths :
                  NetworkNodes(id, d) = {} /\ NetworkEdges(id, d) = {}
            /\ JustBuilt =>
                  DependentsResult(id) =
                      {e \in Values(cache) :
                          /\ TruthyId(e)
                          /\ ~IsDeprecated(e)
                          /\ id \in Get(e, "links", {})})

\* c links to a, which was never appended: right after the build
\* get_dependents("a") returns c, while get_related and get_entry_network
\* return nothing for "a".
C19_Witness ==
    /\ JustBuilt
    /\ "a" \in NeverAppended
    /\ "a" \in DOMAIN reverse_graph
    /\ IdsOf(DependentsResult("a")) = {"c"}
    /\ RelatedResult("a", 1, TRUE) = {}
    /\ NetworkNodes("a", 1) = {}

\* C20: get_entry_network(id, max_depth) returns as nodes the center entry,
\* when it exists and is not deprecated, and get_related(id, max_depth) with
\* the reverse links; every edge is a pair of the forward map with both ends
\* among the nodes, so no end is dangling, deprecated or out of range.
C20_NetworkIsClosedSubgraph ==
    \A id \in GraphIds, d \in Depths :
        LET v == BuiltView
            c == EnsureCacheLoaded(v.cache, v.cache_loaded, memory_file)
            nodes == NetworkNodes(id, d)
            center == IF id \in DOMAIN c /\ ~IsDeprecated(c[id]) THEN {c[id]} ELSE {}
        IN  /\ nodes = center \cup RelatedResult(id, d, TRUE)
            /\ \A edge \in NetworkEdges(id, d) :
                  /\ edge[1] \in DOMAIN v.graph
                  /\ edge[2] \in v.graph[edge[1]]
                  /\ \A k \in {edge[1], edge[2]} :
                        /\ k \in IdsOf(nodes)
                        /\ k \notin NeverAppended
                        /\ k \in DOMAIN c
                        /\ ~IsDeprecated(c[k])
                        /\ k \in WithinSteps(v.graph, v.reverse_graph, {id}, d, TRUE)

\* c links to a, which was never appended, and to b: the network of c at
\* depth 1 has the nodes c and b and the one edge from c to b.
C20_Witness ==
    /\ JustBuilt
    /\ "a" \in NeverAppended
    /\ "c" \in DOMAIN graph
    /\ graph["c"] = {"a", "b"}
    /\ IdsOf(NetworkNodes("c", 1)) = {"b", "c"}
    /\ NetworkEdges("c", 1) = {<<"c", "b">>}

----------------------------------------------------------------------------
(* ProcessMemoryImporter.  A parsed document is a value with its Python    *)
(* type: [py |-> "list", items |-> <<...>>], or an item.  An item of type  *)
(* dict is [py |-> "dict", entry |-> e, types |-> t], t giving the Python  *)
(* type of the value of each key of e; any other item is [py |-> "str"].   *)

REQUIRED_FIELDS == {"id", "type", "title", "summary"}

\* isinstance(entry.get(key), str), isinstance(entry[key], list)
IsInstance(item, key, py) == key \in DOMAIN item.types /\ item.types[key] = py

\* The loop body of _validate_and_import: the error it appends for the
\* item, "" if it appends none.
ValidationError(item) ==
    IF item.py # "dict" THEN "Not a dictionary"
    ELSE IF REQUIRED_FIELDS \ DOMAIN item.entry # {} THEN "Missing required fields"
    ELSE IF ~IsInstance(item, "id", "str") THEN "'id' must be a string"
    ELSE IF ~IsInstance(item, "type", "str") THEN "'type' must be a string"
    ELSE IF ~IsInstance(item, "title", "str") THEN "'title' must be a string"
    ELSE IF ~IsInstance(item, "summary", "str") THEN "'summary' must be a string"
    ELSE IF "tags" \in DOMAIN item.entry /\ ~IsInstance(item, "tags", "list")
         THEN "'tags' must be a list"
    ELSE IF "links" \in DOMAIN item.entry /\ ~IsInstance(item, "links", "list")
         THEN "'links' must be a list"
    ELSE IF "related_concepts" \in DOMAIN item.entry
            /\ ~IsInstance(item, "related_concepts", "list")
         THEN "'related_concepts' must be a list"
    ELSE ""

\* `entries`: a dict is a batch of one, a list is the batch.
EntriesOf(data) ==
    IF data.py = "dict" THEN <<data>>
    ELSE IF data.py = "list" THEN data.items
    ELSE <<>>

RECURSIVE ValidFrom(_, _)
ValidFrom(entries, i) ==
    IF i > Len(entries) THEN <<>>
    ELSE (IF ValidationError(entries[i]) = "" THEN <<entries[i].entry>> ELSE <<>>)
         \o ValidFrom(entries, i + 1)

\* valid_entries, in the order of the input.
ValidEntries(data) == ValidFrom(EntriesOf(data), 1)

RECURSIVE ErrorsFrom(_, _)
ErrorsFrom(entries, i) ==
    IF i > Len(entries) THEN <<>>
    ELSE (IF ValidationError(entries[i]) # ""
          THEN <<[entry |-> i - 1, error |-> ValidationError(entries[i])]>>
          ELSE <<>>)
         \o ErrorsFrom(entries, i + 1)

\* validation_errors
ValidationErrors(data) ==
    IF data.py \notin {"dict", "list"}
    THEN <<[entry |-> -1, error |-> "Invalid data type"]>>
    ELSE ErrorsFrom(EntriesOf(data), 1)

\* `for entry in valid_entries: self.memory_store.append_entry(entry)`: the
\* first append that raises ends the loop and the call.
RECURSIVE AppendAll(_, _, _, _, _, _)
AppendAll(file, c, loaded, clk, entries, i) ==
    IF i > Len(entries)
    THEN [memory_file |-> file, cache |-> c, clock |-> clk, raised |-> "none"]
    ELSE LET r == AppendEffect(file, c, loaded, clk, entries[i])
         IN  IF r.raised # "none" THEN r
             ELSE AppendAll(r.memory_file, r.cache, loaded, r.clock, entries, i + 1)

\* _validate_and_import without its test of `merge`.
validate_and_import_AlwaysMerging(data, merge) ==
    LET r == AppendAll(memory_file, cache, cache_loaded, clock, ValidEntries(data), 1)
    IN  /\ memory_file' = r.memory_file
        /\ cache' = r.cache
        /\ clock' = r.clock
        /\ raised' = r.raised
        /\ UNCHANGED <<cache_loaded, graph_vars>>

validate_and_import(data, merge) ==
    LET r == IF merge
             THEN AppendAll(memory_file, cache, cache_loaded, clock,
                            ValidEntries(data), 1)
             ELSE [memory_file |-> memory_file, cache |-> cache,
                   clock |-> clock, raised |-> "none"]
    IN  /\ memory_file' = r.memory_file
        /\ cache' = r.cache
        /\ clock' = r.clock
        /\ raised' = r.raised
        /\ UNCHANGED <<cache_loaded, graph_vars>>

\* The tuple _validate_and_import returns when no append raises.
ImportResult(data, merge) ==
    [count |-> Len(ValidEntries(data)), errors |-> ValidationErrors(data)]

\* The documents the importer is given.
MaxBatch == 2

MaxImported == 4

StrTypes == [id |-> "str", type |-> "str", title |-> "str", summary |-> "str"]

FullEntry(id) == [id |-> id, type |-> "LessonLearned", title |-> "t", summary |-> "s"]

\* Items that pass validation and can be written.
WritableItems ==
    { [py |-> "dict", entry |-> FullEntry("a"), types |-> StrTypes],
      [py |-> "dict", entry |-> Put(FullEntry("b"), "tags", {"foundation"}),
       types |-> Put(StrTypes, "tags", "list")] }

\* An item that passes validation and holds a value json.dump cannot write
\* (yaml.safe_load makes a date of an unquoted 2024-01-15).
UnwritableItems ==
    { [py |-> "dict", entry |-> Put(FullEntry("b"), "attachment", "object"),
       types |-> Put(StrTypes, "attachment", "date")] }

\* Items that fail validation, each in its own way.
InvalidItems ==
    { [py |-> "str"],
      [py |-> "dict", entry |-> [id |-> "b", type |-> "LessonLearned"],
       types |-> [id |-> "str", type |-> "str"]],
      [py |-> "dict", entry |-> FullEntry("a"), types |-> Put(StrTypes, "title", "int")],
      [py |-> "dict", entry |-> Put(FullEntry("a"), "links", "b"),
       types |-> Put(StrTypes, "links", "str")] }

ImportItems == WritableItems \cup UnwritableItems \cup InvalidItems

Documents ==
    ImportItems
    \cup {[py |-> "list", items |-> items] :
             items \in UNION {[1 .. n -> ImportItems] : n \in 0 .. MaxBatch}}

NextImport ==
    \/ /\ Len(memory_file) + MaxBatch <= MaxImported
       /\ \E data \in Documents, merge \in BOOLEAN : validate_and_import(data, merge)
    \/ \E id \in {"a", "b"} : get_entry(id)
    \/ clear_cache

SpecImport == Init /\ [][NextImport]_vars

----------------------------------------------------------------------------
(* Claims about the statistics and the life cycle of the graph. *)

\* The links of the cached entries that are not deprecated, as pairs.
LiveLinks == {<<e, t>> \in Values(cache) \X (GraphIds \cup {""}) :
                 ~IsDeprecated(e) /\ t \in Get(e, "links", {})}

\* The largest number in a set of naturals, 0 if there is none.
Largest(S) == IF S = {} THEN 0 ELSE CHOOSE m \in S : \A n \in S : n <= m

\* C21: right after a build, get_graph_stats reports as total_nodes the
\* number of non-deprecated entries of the cache, as total_edges the number
\* of their links (each target of an entry once, dangling targets
\* included), as max_outgoing_links the largest number of links of one
\* entry, as max_incoming_links the largest number of entries linking to one
\* id; all four are 0 when the file is empty.
C21_StatsCountTheLiveEntries ==
    JustBuilt =>
        /\ StatsResult.total_nodes =
              Cardinality({e \in Values(cache) : ~IsDeprecated(e)})
        /\ StatsResult.total_edges = Cardinality(LiveLinks)
        /\ StatsResult.max_outgoing_links =
              Largest({Cardinality(Get(e, "links", {})) :
                          e \in {x \in Values(cache) : ~IsDeprecated(x)}})
        /\ StatsResult.max_incoming_links =
              Largest({Cardinality({p \in LiveLinks : p[2] = t}) :
                          t \in {p[2] : p \in LiveLinks}})
        /\ memory_file = <<>> =>
              StatsResult = [total_nodes |-> 0, total_edges |-> 0,
                             max_outgoing_links |-> 0, max_incoming_links |-> 0]

----------------------------------------------------------------------------
(* Claims about get_summary and search_entries. *)

\* C22, as stated: get_summary of an id the cache (replayed if need be) has
\* no entry for fails with the not-found error, as deprecate_entry does.
C22_AbsentSummaryFailsNotFound ==
    [][\A id \in QueryIds, max_words \in MaxWordsValues :
          (/\ id \notin DOMAIN EnsureCacheLoaded(cache, cache_loaded, memory_file)
           /\ get_summary(id, max_words)) =>
              raised' = "NotFound"]_vars

\* C22, amended: get_summary of an id the cache (replayed if need be) has no
\* entry for raises nothing and returns no summary (None); the file and the
\* entries of the cache are as before.
C22_AbsentSummaryIsNone ==
    [][\A id \in QueryIds, max_words \in MaxWordsValues :
          (/\ id \notin DOMAIN EnsureCacheLoaded(cache, cache_loaded, memory_file)
           /\ get_summary(id, max_words)) =>
              /\ raised' = "none"
              /\ SummaryResult(id, max_words)' = {}
              /\ memory_file' = memory_file
              /\ id \notin DOMAIN cache']_vars

\* A read has gone through on a store that holds an entry of one id and
\* none of another, whose summary is None.
C22_Witness ==
    /\ raised = "none"
    /\ cache_loaded
    /\ "a" \in DOMAIN cache
    /\ "b" \notin DOMAIN cache
    /\ SummaryResult("a", MaxWords) # {}
    /\ SummaryResult("b", MaxWords) = {}

\* The keys a summary may have.
SummaryKeys == {"id", "type", "title", "summary", "tags"}

\* What every summary of an existing entry has, whatever max_words: only
\* summary keys, the id and the title of the entry, a prefix of its summary.
IsProjection(s, entry) ==
    /\ DOMAIN s \subseteq SummaryKeys
    /\ s["id"] = Opt(entry, "id")
    /\ s["title"] = Opt(entry, "title")
    /\ IsPrefix(s["summary"], Get(entry, "summary", <<>>))

\* C23, as stated: get_summary(id, max_words) of an existing id has only the
\* keys id, type, title, summary and tags (no rationale, no links), the id
\* and the title of the entry, and as summary a prefix of the entry's
\* summary of at most 6 * max_words characters.
C23_SummaryWithinWordBudget ==
    \A id \in QueryIds, max_words \in MaxWordsValues :
        \A s \in SummaryResult(id, max_words) :
            /\ IsProjection(s, EnsureCacheLoaded(cache, cache_loaded, memory_file)[id])
            /\ Len(s["summary"]) <= 6 * max_words

\* C23, amended: the same projection; the summary is a prefix of the
\* entry's summary of at most 6 * max_words characters when max_words >= 0,
\* and for a negative max_words it is the entry's summary without its last
\* 6 * |max_words| characters, which is not empty when the entry's summary
\* is longer than that.
C23_SummaryIsSlicedProjection ==
    \A id \in QueryIds, max_words \in MaxWordsValues :
        \A s \in SummaryResult(id, max_words) :
            LET entry == EnsureCacheLoaded(cache, cache_loaded, memory_file)[id]
                whole == Get(entry, "summary", <<>>)
                kept == Len(whole) + 6 * max_words
            IN  /\ IsProjection(s, entry)
                /\ max_words >= 0 => Len(s["summary"]) <= 6 * max_words
                /\ max_words < 0 =>
                      Len(s["summary"]) = IF kept > 0 THEN kept ELSE 0

\* The cache holds an entry with a rationale and a summary longer than one
\* word, which get_summary cuts to the characters of one word.
C23_Witness ==
    /\ cache_loaded
    /\ raised = "none"
    /\ \E id \in DOMAIN cache, max_words \in 1 .. MaxWords :
          /\ "rationale" \in DOMAIN cache[id]
          /\ Len(Get(cache[id], "summary", <<>>)) > 6 * max_words
          /\ \E s \in SummaryResult(id, max_words) :
                /\ Len(s["summary"]) = 6 * max_words
                /\ "rationale" \notin DOMAIN s

\* The keyword is in the title, the summary or a tag of the entry, whatever
\* the case of the letters.
KeywordIn(entry, keyword) ==
    \E text \in Opt(entry, "title") \cup Opt(entry, "summary")
                 \cup Get(entry, "tags", {}) :
        Contains(LowerText(text), LowerText(keyword))

\* C24: search_entries(keyword, category, tags) returns exactly the entries
\* of list_entries(category, tags, include_deprecated=False) that have the
\* keyword in their title, their summary or one of their tags (letters
\* compared without case), each of them once; without keyword it returns
\* the entries of that list_entries.
C24_SearchIsFilteredListOnce ==
    \A keyword \in Keywords, category \in QueryCategories, tags \in QueryTagSets :
        LET result == SearchResult(keyword, category, tags)
            listed == ListResult(category, tags, FALSE)
        IN  /\ DOMAIN result =
                  {e \in listed : keyword = <<>> \/ KeywordIn(e, keyword)}
            /\ \A e \in DOMAIN result : result[e] = 1
            /\ keyword = <<>> => DOMAIN result = listed

\* The cache holds an entry that has a keyword in its title, its summary and
\* a tag, one that has it in two tags only, and one that has it nowhere; the
\* search returns the first two.
C24_Witness ==
    /\ cache_loaded
    /\ raised = "none"
    /\ \E keyword \in Keywords, e1, e2, e3 \in Values(cache) :
          /\ KeywordInField(e1, "title", keyword)
          /\ KeywordInField(e1, "summary", keyword)
          /\ KeywordInTags(e1, keyword)
          /\ ~KeywordInField(e2, "title", keyword)
          /\ ~KeywordInField(e2, "summary", keyword)
          /\ Cardinality({t \in Get(e2, "tags", {}) :
                             Contains(LowerText(t), LowerText(keyword))}) = 2
          /\ ~KeywordIn(e3, keyword)
          /\ DOMAIN SearchResult(keyword, "", {}) = {e1, e2}

----------------------------------------------------------------------------
(* Claims about the life cycle of the graph and what it leaves alone. *)

\* C25: the graph goes from unbuilt to built and never back: each of
\* get_related, get_dependencies, get_dependents, find_by_concept,
\* get_entry_network and get_graph_stats called on an unbuilt graph builds
\* it, so that when the call returns the graph is built from the cache of
\* that moment (a step from an unbuilt graph that ends otherwise is none of
\* these calls); and no operation makes a built graph unbuilt.
C25_QueriesBuildAndNothingUnbuilds ==
    [][/\ (~built /\ ~JustBuilt') =>
            /\ \A id \in GraphIds, depth \in Depths, r \in BOOLEAN :
                  ~get_related(id, depth, r)
            /\ \A id \in GraphIds : ~get_dependencies(id)
            /\ \A id \in GraphIds : ~get_dependents(id)
            /\ \A concept \in Concepts : ~find_by_concept(concept)
            /\ \A id \in GraphIds, depth \in Depths :
                  ~get_entry_network(id, depth)
            /\ ~get_graph_stats
       /\ built => built']_vars

\* The graph is built, with edges, from a cache of several entries, and
\* records were appended since.
C25_Witness ==
    /\ built
    /\ raised = "none"
    /\ graph # EmptyDict
    /\ reverse_graph # EmptyDict
    /\ graph # ForwardOf(EnsureCacheLoaded(cache, cache_loaded, memory_file))

\* The step leaves the file and every record of the cache as they were.
StoreUntouched ==
    /\ memory_file' = memory_file
    /\ \A id \in DOMAIN cache :
          id \in DOMAIN cache' /\ cache'[id] = cache[id]

\* C26: no operation of the graph (build_graph, get_related,
\* get_dependencies, get_dependents, find_by_concept, find_by_tag,
\* get_entry_network, get_graph_stats) changes the file, and none changes or
\* removes a record the cache holds: a step that does is none of them.
C26_GraphNeverWritesBack ==
    [][~StoreUntouched =>
          /\ ~build_graph
          /\ \A id \in GraphIds, depth \in Depths, r \in BOOLEAN :
                ~get_related(id, depth, r)
          /\ \A id \in GraphIds : ~get_dependencies(id)
          /\ \A id \in GraphIds : ~get_dependents(id)
          /\ \A concept \in Concepts : ~find_by_concept(concept)
          /\ \A tag \in GraphTags : ~find_by_tag(tag)
          /\ \A id \in GraphIds, depth \in Depths :
                ~get_entry_network(id, depth)
          /\ ~get_graph_stats]_vars

\* The graph is built over a cache that holds a deprecated entry with links
\* next to a live one, and the file holds every record written.
C26_Witness ==
    /\ JustBuilt
    /\ raised = "none"
    /\ Len(memory_file) = MaxLog
    /\ graph # EmptyDict
    /\ \E id \in DOMAIN cache :
          /\ IsDeprecated(cache[id])
          /\ Get(cache[id], "links", {}) # {}
          /\ id \notin DOMAIN graph

----------------------------------------------------------------------------
(* Claims about the importer. *)

\* C27: _validate_and_import with merge=False never changes the store (a
\* step that changes the file or the cache is no such call, whatever the
\* document), and the count it returns is the number of entries that pass
\* validation.
C27_ValidationOnlyChangesNothing ==
    [][/\ (memory_file' # memory_file \/ cache' # cache
           \/ cache_loaded' # cache_loaded) =>
             \A data \in Documents : ~validate_and_import(data, FALSE)
       /\ \A data \in Documents :
             ImportResult(data, FALSE).count =
               Cardinality({i \in 1 .. Len(EntriesOf(data)) :
                               ValidationError(EntriesOf(data)[i]) = ""})]_vars

\* The store holds imported records and a loaded cache, and there is a
\* document of a valid and an invalid entry that validation counts as one.
C27_Witness ==
    /\ raised = "none"
    /\ cache_loaded
    /\ Len(memory_file) >= MaxBatch
    /\ cache # EmptyDict
    /\ \E data \in Documents :
          /\ ImportResult(data, FALSE).count = 1
          /\ Len(ImportResult(data, FALSE).errors) = 1

\* The record of the file without the defaults append_entry stamps on it.
AsImported(record, entry) == [k \in DOMAIN entry |-> record[k]]

\* C28: _validate_and_import with merge=True appends exactly the entries
\* that pass validation, in the order of the input, one line each, after
\* the lines the file had, and none of the rejected ones; it returns (no
\* error is raised), the count is the number of lines appended and there is
\* one error for each rejected entry.
C28_MergeAppendsTheValidEntries ==
    [][\A data \in Documents :
          (data.py = "list" /\ validate_and_import(data, TRUE)) =>
              LET valid == ValidEntries(data)
                  before == Len(memory_file)
              IN  /\ raised' = "none"
                  /\ IsPrefix(memory_file, memory_file')
                  /\ Len(memory_file') = before + Len(valid)
                  /\ \A i \in 1 .. (Len(memory_file') - before) :
                        /\ memory_file'[before + i].kind = "line"
                        /\ i <= Len(valid)
                        /\ DOMAIN valid[i] \subseteq DOMAIN memory_file'[before + i].entry
                        /\ AsImported(memory_file'[before + i].entry, valid[i]) = valid[i]
                  /\ ImportResult(data, TRUE).count = Len(memory_file') - before
                  /\ Len(ImportResult(data, TRUE).errors) = Len(data.items) - Len(valid)]_vars

----------------------------------------------------------------------------
(* Claims about the coherence of the cache and of the graph with it. *)

\* C29: in every state reached by append_entry, deprecate_entry, the reads
\* and clear_cache, a loaded cache is the cache a full replay of the current
\* file yields, so that clear_cache followed by a read gives the results
\* the cache gave before: the update on append and the replay agree.
C29_LoadedCacheIsReplayOfFile ==
    cache_loaded => cache = ReplayedCache

\* C30: right after a build, the keys of the forward map are the ids whose
\* entry in the cache is not deprecated, the forward set of each key is the
\* set of ids in the links of its entry, and an entry of the cache that is
\* deprecated is no key of the forward map and in no set of the reverse
\* map.
C30_EdgesComeFromLiveEntriesOnly ==
    JustBuilt =>
        /\ DOMAIN graph = {id \in DOMAIN cache : ~IsDeprecated(cache[id])}
        /\ \A id \in DOMAIN graph :
              id \in DOMAIN cache /\ graph[id] = Get(cache[id], "links", {})
        /\ \A id \in DOMAIN cache :
              IsDeprecated(cache[id]) =>
                  /\ id \notin DOMAIN graph
                  /\ \A t \in DOMAIN reverse_graph : id \notin reverse_graph[t]

----------------------------------------------------------------------------
(* Claims about the targets of links, the symmetry of the maps and the     *)
(* results of the traversals.                                              *)

\* The cache the queries read in the current state.
CurrentCache ==
    EnsureCacheLoaded(BuiltView.cache, BuiltView.cache_loaded, memory_file)

\* The id is no entry of the cache, or its entry is deprecated.
MissingOrDeprecated(c, id) == id \notin DOMAIN c \/ IsDeprecated(c[id])

\* Every entry the four queries can return in the current state.
ReturnedEntries ==
    UNION {RelatedResult(id, depth, r) \cup NetworkNodes(id, depth) :
              <<id, depth, r>> \in GraphIds \X Depths \X BOOLEAN}
    \cup UNION {DependenciesResult(id) \cup DependentsResult(id) : id \in GraphIds}

\* C31: an id that is missing from the cache or whose entry is deprecated is
\* never among the entries get_related, get_dependencies, get_dependents and
\* get_entry_network return; yet right after a build the edge from a node to
\* such a target is in the forward and the reverse map and is counted in
\* total_edges, which is the number of links of the nodes, whatever their
\* targets.
C31_DeadTargetsAreEdgesButNotResults ==
    /\ \A e \in ReturnedEntries : ~MissingOrDeprecated(CurrentCache, e["id"])
    /\ JustBuilt =>
          /\ \A a \in DOMAIN graph :
                \A t \in Get(cache[a], "links", {}) :
                    MissingOrDeprecated(cache, t) =>
                        /\ t \in graph[a]
                        /\ t \in DOMAIN reverse_graph
                        /\ a \in reverse_graph[t]
          /\ StatsResult.total_edges =
                Cardinality({<<a, t>> \in (DOMAIN graph) \X GraphIds :
                                t \in Get(cache[a], "links", {})})

\* Right after a build, "c" links to "a", which is deprecated, and to "b",
\* which is missing: both edges are in the maps and counted, neither target
\* is returned.
C31_Witness ==
    /\ JustBuilt
    /\ "c" \in DOMAIN graph
    /\ graph["c"] = {"a", "b"}
    /\ "a" \in DOMAIN cache
    /\ IsDeprecated(cache["a"])
    /\ "b" \notin DOMAIN cache
    /\ reverse_graph["a"] = {"c"}
    /\ reverse_graph["b"] = {"c"}
    /\ StatsResult.total_edges = 2
    /\ RelatedResult("c", MaxDepth, TRUE) = {}
    /\ DependenciesResult("c") = {}
    /\ IdsOf(NetworkNodes("c", MaxDepth)) = {"c"}

\* C32: in every state of a built graph the two maps mirror each other: b is
\* in the forward set of a exactly when a is in the reverse set of b, and so
\* the sizes of the forward sets and of the reverse sets add up to the same
\* number.
C32_MapsMirrorEachOther ==
    built =>
        /\ \A a \in DOMAIN graph : \A b \in graph[a] :
              b \in DOMAIN reverse_graph /\ a \in reverse_graph[b]
        /\ \A b \in DOMAIN reverse_graph : \A a \in reverse_graph[b] :
              a \in DOMAIN graph /\ b \in graph[a]
        /\ SumOfSizes(graph, DOMAIN graph)
              = SumOfSizes(reverse_graph, DOMAIN reverse_graph)

\* A built graph with a self-loop, a link to an id that is no node, and a
\* node with two incoming links.
C32_Witness ==
    /\ built
    /\ raised = "none"
    /\ \E a, c \in DOMAIN graph :
          /\ a # c
          /\ a \in graph[a]
          /\ graph[a] \ DOMAIN graph # {}
          /\ a \in graph[c]
          /\ reverse_graph[a] = {a, c}

\* C33: in every state, the maps stale or not, with cycles and self-loops,
\* get_related(id, depth, include_reverse) returns neither the entry of id
\* itself nor an entry that is deprecated in the cache, and no two of the
\* entries it returns have the same id.
C33_RelatedExcludesStartAndDeprecated ==
    \A id \in GraphIds, depth \in Depths, r \in BOOLEAN :
        LET result == RelatedResult(id, depth, r)
        IN  /\ \A e \in result :
                  /\ e["id"] # id
                  /\ ~IsDeprecated(e)
                  /\ ~MissingOrDeprecated(CurrentCache, e["id"])
            /\ \A e1, e2 \in result : e1["id"] = e2["id"] => e1 = e2

\* A stale graph with a self-loop on "a" and a cycle between "a" and "b",
\* "b" deprecated since the build: from "a" nothing is returned, from "b"
\* the entry of "a" only.
C33_Witness ==
    /\ built
    /\ cache_loaded
    /\ {"a", "b"} \subseteq DOMAIN graph
    /\ {"a", "b"} \subseteq graph["a"]
    /\ "a" \in graph["b"]
    /\ {"a", "b"} \subseteq DOMAIN cache
    /\ IsDeprecated(cache["b"])
    /\ RelatedResult("a", MaxDepth, TRUE) = {}
    /\ RelatedResult("b", MaxDepth, TRUE) = {cache["a"]}

----------------------------------------------------------------------------
(* Claims about the stream, the defaults of append and the cache. *)

\* The well-formed records of the file, in the order of the file.
WellFormedRecords ==
    LET IsWellFormed(i) == i \in WellFormed
        positions == SelectSeq([i \in 1 .. Len(memory_file) |-> i], IsWellFormed)
    IN  [k \in 1 .. Len(positions) |-> memory_file[positions[k]].entry]

\* C34: stream_entries(include_deprecated=True) without filter yields every
\* well-formed record of the file in the order of the file, superseded
\* records of an id included; a stream leaves what the next stream yields
\* as it is (a step that changes it is no stream), and after any operation,
\* appends included, the new stream begins with the old one.
C34_StreamIsWholeLogAndRestartable ==
    [][/\ StreamResult("", {}, TRUE) = WellFormedRecords
       /\ StreamResult("", {}, TRUE)' = WellFormedRecords'
       /\ IsPrefix(StreamResult("", {}, TRUE), StreamResult("", {}, TRUE)')
       /\ StreamResult("", {}, TRUE)' # StreamResult("", {}, TRUE) =>
             \A c \in Categories \cup {""}, t \in TagSets \cup {{}}, d \in BOOLEAN :
                 ~stream_entries(c, t, d)]_vars

\* The file holds a partial record and, on the later lines, two records of
\* one id, the second superseding the first: the stream yields both.
C34_Witness ==
    /\ Len(memory_file) = MaxLog
    /\ \E i \in 1 .. Len(memory_file) : memory_file[i].kind = "fragment"
    /\ Len(StreamResult("", {}, TRUE)) = 2
    /\ StreamResult("", {}, TRUE)[1]["id"] = StreamResult("", {}, TRUE)[2]["id"]
    /\ StreamResult("", {}, TRUE)[1] # StreamResult("", {}, TRUE)[2]

\* C35: append_entry fills in defaults and overrides nothing: the record it
\* writes has every key of the entry with the value supplied (deprecated and
\* timestamp_created included), deprecated = false if the entry had none and
\* a timestamp_created stamped if it had none; and when the record is not
\* deprecated and the id was deprecated before, the id is current and
\* visible again: get_entry returns the record and list_entries holds it.
C35_AppendFillsDefaultsOnly ==
    [][(Len(memory_file') = Len(memory_file) + 1 /\ raised' = "none") =>
          \A entry \in StoreEntries :
              (/\ "id" \in DOMAIN entry
               /\ Get(memory_file'[Len(memory_file')].entry, "id", "") = entry["id"]
               /\ append_entry(entry)) =>
                  LET stored == memory_file'[Len(memory_file')].entry
                      before == GetEntryResult(entry["id"])
                  IN  /\ memory_file'[Len(memory_file')].kind = "line"
                      /\ DOMAIN stored
                            = DOMAIN entry \cup {"deprecated", "timestamp_created"}
                      /\ \A k \in DOMAIN entry : stored[k] = entry[k]
                      /\ "deprecated" \notin DOMAIN entry => stored["deprecated"] = FALSE
                      /\ "timestamp_created" \notin DOMAIN entry =>
                            stored["timestamp_created"] = clock
                      /\ (~IsDeprecated(stored) /\ \E d \in before : IsDeprecated(d)) =>
                            /\ GetEntryResult(entry["id"])' = {stored}
                            /\ stored \in ListResult("", {}, FALSE)']_vars

\* C36: every traversal comes to an end after visiting each node at most
\* once, whatever the graph (cycles, mutual links, self-loops) and the depth
\* (0, negative, 100): the loop of get_related, which get_dependencies and
\* get_entry_network run too, makes no more passes than the depth and no
\* more than there are ids in the maps, no id is in two of its levels, the
\* start is in none, and the levels together are the ids it fetches.
C36_TraversalVisitsEachNodeOnce ==
    \A id \in GraphIds, depth \in Depths \cup {DependencyDepth}, r \in BOOLEAN :
        LET levels == RelatedLevels(id, depth, r)
            v == BuiltView
            nodes == DOMAIN v.graph \cup DOMAIN v.reverse_graph
        IN  /\ Len(levels) <= (IF depth > 0 THEN depth ELSE 0)
            /\ Len(levels) <= Cardinality(nodes)
            /\ \A i, j \in 1 .. Len(levels) : i # j => levels[i] \cap levels[j] = {}
            /\ \A i \in 1 .. Len(levels) : id \notin levels[i]
            /\ UNION {levels[i] : i \in 1 .. Len(levels)}
                  = RelatedIds(v.graph, v.reverse_graph, id, depth, r)

\* A built graph in which "a" links to itself and to "b" and "b" links back:
\* with depth 100 the traversal from "a" makes two passes, {"b"} and {}.
C36_Witness ==
    /\ built
    /\ {"a", "b"} \subseteq DOMAIN graph
    /\ graph["a"] = {"a", "b"}
    /\ "a" \in graph["b"]
    /\ RelatedLevels("a", DependencyDepth, FALSE) = <<{"b"}, {}>>
    /\ RelatedLevels("a", 0, TRUE) = <<>>
    /\ RelatedLevels("a", -1, TRUE) = <<>>

----------------------------------------------------------------------------
(* Claims about deprecated entries on the paths of the graph. *)

\* The links of the current records that are not deprecated.
LiveRecordLinks(c) ==
    [id \in {i \in DOMAIN c : ~IsDeprecated(c[i])} |-> Get(c[id], "links", {})]

\* The ids a forward path from id reaches without going through an entry
\* whose current record is deprecated.
ReachedByLivePath(c, id) == ForwardClosure(LiveRecordLinks(c), {}, {id})

EntryIds(entries) == {e["id"] : e \in entries}

\* C37, after a build: an entry that every forward path from id reaches only
\* through a deprecated entry is in no result of get_dependencies(id) or
\* get_related(id, depth).
C37_BuiltGraphStopsAtDeprecated ==
    JustBuilt =>
        \A id \in GraphIds, t \in GraphIds :
            t \notin ReachedByLivePath(cache, id) =>
                /\ t \notin EntryIds(DependenciesResult(id))
                /\ \A depth \in Depths : t \notin EntryIds(RelatedResult(id, depth, FALSE))

\* C37, before the rebuild: a deprecation made on a built graph takes no
\* entry out of the results but the deprecated one.
C37_DeprecationWaitsForRebuild ==
    [][(built /\ built' /\ Len(memory_file') = Len(memory_file) + 1) =>
          \A d \in GraphIds :
              (d \in DOMAIN cache' /\ IsDeprecated(cache'[d]) /\ deprecate_entry(d, "")) =>
                  \A id \in GraphIds :
                      /\ {e \in DependenciesResult(id) : e["id"] # d}
                            \subseteq DependenciesResult(id)'
                      /\ \A depth \in Depths :
                            {e \in RelatedResult(id, depth, FALSE) : e["id"] # d}
                               \subseteq RelatedResult(id, depth, FALSE)']_vars

\* C37: traversal does not pass through deprecated entries after a build,
\* and an entry behind a deprecation made after the last build is still
\* returned until the graph is built again.
C37_TraversalStopsAtDeprecatedOnceRebuilt ==
    /\ []C37_BuiltGraphStopsAtDeprecated
    /\ C37_DeprecationWaitsForRebuild

\* The graph built after "b" was deprecated on the path a -> b -> c: "c" is
\* a live entry, and nothing is returned for "a".
C37_Witness ==
    /\ JustBuilt
    /\ {"a", "b", "c"} \subseteq DOMAIN cache
    /\ Get(cache["a"], "links", {}) = {"b"}
    /\ Get(cache["b"], "links", {}) = {"c"}
    /\ IsDeprecated(cache["b"])
    /\ ~IsDeprecated(cache["a"]) /\ ~IsDeprecated(cache["c"])
    /\ DependenciesResult("a") = {}
    /\ \E i \in 1 .. Len(memory_file) :
          /\ memory_file[i].kind = "line"
          /\ "timestamp_deprecated" \in DOMAIN memory_file[i].entry

\* The same path before the rebuild: "c" is still returned for "a".
C37_StaleGraph ==
    /\ built
    /\ {"a", "b", "c"} \subseteq DOMAIN cache
    /\ IsDeprecated(cache["b"])
    /\ "c" \notin ReachedByLivePath(cache, "a")
    /\ "c" \in IdsOf(DependenciesResult("a"))

----------------------------------------------------------------------------
(* Claims about two stores on one file, and about the life of the cache. *)

\* The record an append of the entry writes when the clock shows clk.
StampedAt(entry, clk) ==
    LET stamped == IF "timestamp_created" \in DOMAIN entry THEN entry
                   ELSE Put(entry, "timestamp_created", clk)
    IN  IF "deprecated" \in DOMAIN stamped THEN stamped
        ELSE Put(stamped, "deprecated", FALSE)

\* No record that either store appends whole is lost from the log: it is the
\* last well-formed record of the file, after those that were there.
C38_NoAppendedRecordLost ==
    [][\A entry \in SharedEntries :
          (/\ "id" \in DOMAIN entry
           /\ JsonSerializable(entry)
           /\ append_entry(entry) \/ other_append_entry(entry)) =>
              WellFormedRecords' = Append(WellFormedRecords, StampedAt(entry, clock))]_vars

\* The cache a store loads after clear_cache is the last-write-wins replay
\* of the merged log: one entry per id of a well-formed record, the last one.
C38_ReloadedCacheIsReplayOfMergedLog ==
    [][(~cache_loaded /\ cache_loaded' /\ memory_file' = memory_file) =>
          /\ DOMAIN cache' = {Get(memory_file[i].entry, "id", "") : i \in WellFormed}
          /\ \A id \in DOMAIN cache' : cache'[id] = LastRecordOf(id)]_vars

\* A loaded cache does not show what the other store appends.
C38_LoadedCacheIgnoresOtherStore ==
    [][(cache_loaded /\ Len(memory_file') = Len(memory_file) + 1 /\ cache' = cache) =>
          \A entry \in SharedEntries :
              other_append_entry(entry) =>
                  /\ cache_loaded'
                  /\ \A id \in SharedIds : GetEntryResult(id)' = GetEntryResult(id)
                  /\ \A d \in BOOLEAN : ListResult("", {}, d)' = ListResult("", {}, d)]_vars

\* C38: with two stores on the same file whose appends interleave as whole
\* records, no appended record is lost from the log, a store that clears its
\* cache and reads again holds the last-write-wins replay of the merged log,
\* and a store whose cache is loaded does not see the other store's appends
\* until it clears the cache.
C38_TwoStoresShareTheLog ==
    /\ C38_NoAppendedRecordLost
    /\ C38_ReloadedCacheIsReplayOfMergedLog
    /\ C38_LoadedCacheIgnoresOtherStore

\* This store holds a loaded cache without "b" while the file holds a record
\* of "b" that the other store appended after a record of "a".
C38_StaleCache ==
    /\ cache_loaded
    /\ Len(memory_file) = 2
    /\ DOMAIN cache = {"a"}
    /\ memory_file[2].kind = "line"
    /\ memory_file[2].entry["id"] = "b"
    /\ DOMAIN ReplayedCache = {"a", "b"}

\* A call of one of the operations that read through the cache.
ReadsThroughCache ==
    \/ \E id \in SharedIds : get_entry(id)
    \/ \E d \in BOOLEAN : list_entries("", {}, d)
    \/ \E k \in Keywords : search_entries(k, "", {})
    \/ \E d \in BOOLEAN : get_entry_count(d)

\* C39: the cache is loaded lazily and emptied only by clear_cache: an append
\* on a store whose cache is not loaded leaves the cache empty and the flag
\* false; a get, list, search or count that returns sets the flag; the flag
\* is reset by clear_cache only, and while it stays set no id leaves the
\* cache; clear_cache empties the cache and resets the flag and leaves the
\* file as it is.
C39_CacheIsLazyAndClearedOnlyByClear ==
    [][/\ (~cache_loaded /\ Len(memory_file') = Len(memory_file) + 1) =>
              \A entry \in SharedEntries :
                  append_entry(entry) => (cache' = EmptyDict /\ ~cache_loaded')
       /\ (~cache_loaded /\ raised' = "none" /\ memory_file' = memory_file
             /\ ReadsThroughCache) => cache_loaded'
       /\ (cache_loaded /\ cache_loaded') => DOMAIN cache \subseteq DOMAIN cache'
       /\ (cache_loaded /\ ~cache_loaded') => clear_cache
       /\ clear_cache =>
              (cache' = EmptyDict /\ ~cache_loaded' /\ memory_file' = memory_file)]_vars

\* After a deprecation, which loads the cache, the cache was cleared: it is
\* empty and not loaded, and the file still holds the three records
\* written, the last of them appended to the file since.
C39_Witness ==
    /\ ~cache_loaded
    /\ cache = EmptyDict
    /\ Len(memory_file) = MaxLog
    /\ \A i \in 1 .. Len(memory_file) : memory_file[i].kind = "line"
    /\ "timestamp_deprecated" \in DOMAIN memory_file[2].entry
    /\ memory_file[Len(memory_file)].entry["id"] = "b"
    /\ Cardinality(DOMAIN ReplayedCache) = 2

====
